---- MODULE Spec2Model ----
(***************************************************************************)
(* A model of the plico finite-domain constraint solver: the built-in      *)
(* constraints' revise procedures, the worklist, the AC-3 propagation loop *)
(* (SearchStrategy::propagate) and the backtracking / propagation-only     *)
(* search strategies.                                                      *)
(*                                                                         *)
(* A Solution is modelled by its `domains` map: a function from            *)
(* VariableId to the set of values still possible for the variable.        *)
(* StandardValue::Int(i) is the integer i; StandardValue::Bool(false) and  *)
(* Bool(true) are the two integers BoolFalse < BoolTrue placed above every *)
(* Int, as the derived Ord of StandardValue orders the variants.           *)
(***************************************************************************)
EXTENDS Integers, Sequences, FiniteSets, TLC

VARIABLES constraints, initial, strategy, variable_heuristic, value_heuristic,
          ordered, observed, intersected, tie, restart, op, pc, solution, worklist, ret,
          prop_result, stack, result, stats, run, first, last_rev

vars == <<constraints, initial, strategy, variable_heuristic, value_heuristic,
          ordered, observed, intersected, tie, restart, op, pc, solution, worklist, ret,
          prop_result, stack, result, stats, run, first, last_rev>>

(***************************************************************************)
(* Bounds of the model.                                                    *)
(***************************************************************************)
\* Int values of the generated problems are 1..MaxVal.
MaxVal == 3
\* RestartAfterNBacktracks is tried with max_backtracks in 0..MaxThreshold.
MaxThreshold == 3
\* The inner runs of a RestartingSearch are counted up to MaxRuns.
MaxRuns == 2

(***************************************************************************)
(* Values.                                                                 *)
(***************************************************************************)
BoolFalse == 1000
BoolTrue == 1001
LOW == 10
NORMAL == 50
HIGH == 100

IntValues == 1..MaxVal
BoolValues == {BoolFalse, BoolTrue}

(***************************************************************************)
(* DomainRepresentation (HashSetDomain): a finite set of values.           *)
(***************************************************************************)
len(d) == Cardinality(d)
is_singleton(d) == len(d) = 1
is_empty(d) == len(d) = 0
get_singleton_value(d) == CHOOSE v \in d : TRUE
get_min_value(d) == CHOOSE v \in d : \A w \in d : v <= w
get_max_value(d) == CHOOSE v \in d : \A w \in d : v >= w
intersect(d, e) == d \cap e

\* Solution::is_complete
is_complete(doms) == \A v \in DOMAIN doms : is_singleton(doms[v])

\* domains.update(var, new_domain) / new_domains.insert(var, new_domain)
update(doms, v, d) == [doms EXCEPT ![v] = d]

(***************************************************************************)
(* Sequence helpers.                                                       *)
(***************************************************************************)
Range(s) == {s[i] : i \in 1..Len(s)}
Front(s) == SubSeq(s, 1, Len(s) - 1)
Last(s) == s[Len(s)]

RECURSIVE SumSeq(_)
SumSeq(s) == IF s = <<>> THEN 0 ELSE Head(s) + SumSeq(Tail(s))

\* Iterator::filter on a sequence
RECURSIVE FilterNe(_, _)
FilterNe(s, x) ==
    IF s = <<>> THEN <<>>
    ELSE IF Head(s) = x THEN FilterNe(Tail(s), x)
         ELSE <<Head(s)>> \o FilterNe(Tail(s), x)

(***************************************************************************)
(* Outcomes of Constraint::revise: Ok(None), Ok(Some(new_solution)), Err.  *)
(***************************************************************************)
Unchanged == [kind |-> "Unchanged", doms |-> <<>>]
Pruned(doms) == [kind |-> "Pruned", doms |-> doms]
Error == [kind |-> "Error", doms |-> <<>>]

\* The common tail: return Some only if the new target domain is smaller.
PruneIfSmaller(doms, t, new_domain) ==
    IF len(new_domain) < len(doms[t])
    THEN Pruned(update(doms, t, new_domain))
    ELSE Unchanged

\* `if *target_var == self.vars[0] { self.vars[1] } else { self.vars[0] }`
OtherVar(c, t) == IF t = c.vars[1] THEN c.vars[2] ELSE c.vars[1]

(***************************************************************************)
(* Constraint constructors.  `vars` is what variables() returns.           *)
(***************************************************************************)
Con(type, vs, k, table) == [type |-> type, vars |-> vs, c |-> k, data_set |-> table]
NotEqualConstraint(a, b) == Con("NotEqual", <<a, b>>, 0, {})
EqualConstraint(a, b) == Con("Equal", <<a, b>>, 0, {})
AllDifferentConstraint(vs) == Con("AllDifferent", vs, 0, {})
AbsoluteDifferenceNotEqualConstraint(x, y, k) == Con("AbsDiffNotEqual", <<x, y>>, k, {})
SumOfConstraint(terms, sum) == Con("SumOf", Append(terms, sum), 0, {})
BooleanOrConstraint(vs) == Con("BooleanOr", vs, 0, {})
ReifiedOrConstraint(b_out, b_in) == Con("ReifiedOr", Append(b_in, b_out), 0, {})
ReifiedEqualConstraint(b, x, y) == Con("ReifiedEqual", <<b, x, y>>, 0, {})
ReifiedMemberOfConstraint(b, vs, table) == Con("ReifiedMemberOf", Append(vs, b), 0, table)
\* an implementation of the Constraint trait supplied by the caller, whose
\* revise gives up with an error once its target is assigned
FailingConstraint(vs) == Con("Failing", vs, 0, {})

(***************************************************************************)
(* The built-in constraints' revise procedures.                            *)
(***************************************************************************)
\* NotEqualConstraint::revise with the target taken for the other variable
NotEqualReviseOwn(c, t, doms) ==
    LET other_domain == doms[t]
    IN  IF ~is_singleton(other_domain) THEN Unchanged
        ELSE PruneIfSmaller(doms, t, doms[t] \ {get_singleton_value(other_domain)})

\* NotEqualConstraint::revise
NotEqualRevise(c, t, doms) ==
    LET other_domain == doms[OtherVar(c, t)]
    IN  IF ~is_singleton(other_domain) THEN Unchanged
        ELSE PruneIfSmaller(doms, t, doms[t] \ {get_singleton_value(other_domain)})

\* EqualConstraint::revise with the other domain put in place of the target's
\* instead of intersected with it
EqualReviseAssign(c, t, doms) ==
    PruneIfSmaller(doms, t, doms[OtherVar(c, t)])

\* EqualConstraint::revise
EqualRevise(c, t, doms) ==
    PruneIfSmaller(doms, t, intersect(doms[t], doms[OtherVar(c, t)]))

\* AllDifferentConstraint::revise without the test that leaves the target out
\* of the fixed variables
AllDifferentReviseSelf(c, t, doms) ==
    LET fixed_values_to_remove ==
            {get_singleton_value(doms[c.vars[i]]) :
                i \in {j \in 1..Len(c.vars) : is_singleton(doms[c.vars[j]])}}
    IN  IF fixed_values_to_remove = {} THEN Unchanged
        ELSE PruneIfSmaller(doms, t, doms[t] \ fixed_values_to_remove)

\* AllDifferentConstraint::revise
AllDifferentRevise(c, t, doms) ==
    LET fixed_values_to_remove ==
            {get_singleton_value(doms[c.vars[i]]) :
                i \in {j \in 1..Len(c.vars) :
                          c.vars[j] # t /\ is_singleton(doms[c.vars[j]])}}
    IN  IF fixed_values_to_remove = {} THEN Unchanged
        ELSE PruneIfSmaller(doms, t, doms[t] \ fixed_values_to_remove)

\* AbsoluteDifferenceNotEqualConstraint::revise
AbsDiffNotEqualRevise(c, t, doms) ==
    LET other_domain == doms[OtherVar(c, t)]
        other_value == get_singleton_value(other_domain)
    IN  IF ~is_singleton(other_domain) THEN Unchanged
        ELSE PruneIfSmaller(doms, t,
                 doms[t] \ {other_value + c.c, other_value - c.c})

\* SumOfConstraint::revise; terms are all variables but the last, the sum
\* variable is the last.
SumOfTerms(c) == Front(c.vars)
SumOfSum(c) == Last(c.vars)
SumOfRevise(c, t, doms) ==
    LET terms == SumOfTerms(c)
        sum == SumOfSum(c)
        is_target_in_terms == t \in Range(terms)
        is_target_the_sum == t = sum
        mins(ts) == [i \in 1..Len(ts) |-> get_min_value(doms[ts[i]])]
        maxs(ts) == [i \in 1..Len(ts) |-> get_max_value(doms[ts[i]])]
        \* the other terms: `if other_term_id == target_var { continue; }`
        others == FilterNe(terms, t)
        new_max_t == IF others = <<>> THEN get_max_value(doms[sum])
                     ELSE get_max_value(doms[sum]) - SumSeq(mins(others))
        new_min_t == IF others = <<>> THEN get_min_value(doms[sum])
                     ELSE get_min_value(doms[sum]) - SumSeq(maxs(others))
    IN  IF ~is_target_in_terms /\ ~is_target_the_sum THEN Unchanged
        ELSE IF is_target_the_sum
        THEN IF \E i \in 1..Len(terms) : is_empty(doms[terms[i]]) THEN Unchanged
             ELSE IF terms = <<>> THEN Unchanged
             ELSE PruneIfSmaller(doms, t,
                      {v \in doms[t] : v >= SumSeq(mins(terms))
                                       /\ v <= SumSeq(maxs(terms))})
        ELSE IF is_empty(doms[sum]) THEN Unchanged
             ELSE IF \E i \in 1..Len(others) : is_empty(doms[others[i]]) THEN Unchanged
             ELSE PruneIfSmaller(doms, t,
                      {v \in doms[t] : v >= new_min_t /\ v <= new_max_t})

\* BooleanOrConstraint::revise with known_false_count compared with the number
\* of all the variables
BooleanOrReviseAllFalse(c, t, doms) ==
    LET idx == 1..Len(c.vars)
        some_true == \E i \in idx : doms[c.vars[i]] = {BoolTrue}
        known_false_count ==
            Cardinality({i \in idx : is_singleton(doms[c.vars[i]])})
        possibly_true == {i \in idx : ~is_singleton(doms[c.vars[i]])}
        last_hope_var == c.vars[CHOOSE i \in possibly_true : TRUE]
        new_domain == doms[last_hope_var] \cap {BoolTrue}
    IN  IF some_true THEN Unchanged
        ELSE IF Cardinality(possibly_true) = 1
                /\ known_false_count = Len(c.vars)
                /\ len(new_domain) < len(doms[last_hope_var])
             THEN Pruned(update(doms, last_hope_var, new_domain))
             ELSE Unchanged

\* BooleanOrConstraint::revise; the target variable is ignored.
BooleanOrRevise(c, t, doms) ==
    LET idx == 1..Len(c.vars)
        some_true == \E i \in idx : doms[c.vars[i]] = {BoolTrue}
        known_false_count ==
            Cardinality({i \in idx : is_singleton(doms[c.vars[i]])})
        possibly_true == {i \in idx : ~is_singleton(doms[c.vars[i]])}
        last_hope_var == c.vars[CHOOSE i \in possibly_true : TRUE]
        new_domain == doms[last_hope_var] \cap {BoolTrue}
    IN  IF some_true THEN Unchanged
        ELSE IF Cardinality(possibly_true) = 1
                /\ known_false_count = Len(c.vars) - 1
                /\ len(new_domain) < len(doms[last_hope_var])
             THEN Pruned(update(doms, last_hope_var, new_domain))
             ELSE Unchanged

\* domain.retain over each variable of a list in turn, on new_domains
RECURSIVE RetainEach(_, _, _)
RetainEach(doms, vs, keep) ==
    IF vs = <<>> THEN doms
    ELSE RetainEach(update(doms, Head(vs), doms[Head(vs)] \cap keep), Tail(vs), keep)

\* ReifiedOrConstraint::revise with the propagation from the output to the
\* inputs made only when the inputs have told nothing about the output
ReifiedOrReviseElse(c, t, doms) ==
    LET b_in == Front(c.vars)
        b_out == Last(c.vars)
        b_out_domain == doms[b_out]
        any_input_is_true == \E i \in 1..Len(b_in) : doms[b_in[i]] = {BoolTrue}
        all_inputs_are_false ==
            \A i \in 1..Len(b_in) :
                is_singleton(doms[b_in[i]]) /\ doms[b_in[i]] # {BoolTrue}
        d2 == IF any_input_is_true
              THEN update(doms, b_out, b_out_domain \cap {BoolTrue})
              ELSE IF all_inputs_are_false
                   THEN update(doms, b_out, b_out_domain \cap {BoolFalse})
                   ELSE IF b_out_domain = {BoolFalse}
                        THEN RetainEach(doms, b_in, {BoolFalse})
                        ELSE doms
    IN  IF d2 # doms THEN Pruned(d2) ELSE Unchanged

\* ReifiedOrConstraint::revise; the target variable is ignored.
ReifiedOrBIn(c) == Front(c.vars)
ReifiedOrBOut(c) == Last(c.vars)
ReifiedOrRevise(c, t, doms) ==
    LET b_in == ReifiedOrBIn(c)
        b_out == ReifiedOrBOut(c)
        b_out_domain == doms[b_out]
        any_input_is_true == \E i \in 1..Len(b_in) : doms[b_in[i]] = {BoolTrue}
        all_inputs_are_false ==
            \A i \in 1..Len(b_in) :
                is_singleton(doms[b_in[i]]) /\ doms[b_in[i]] # {BoolTrue}
        \* propagation from inputs to output
        d1 == IF any_input_is_true
              THEN update(doms, b_out, b_out_domain \cap {BoolTrue})
              ELSE IF all_inputs_are_false
                   THEN update(doms, b_out, b_out_domain \cap {BoolFalse})
                   ELSE doms
        \* propagation from output to inputs; reads the old b_out domain
        d2 == IF b_out_domain = {BoolFalse}
              THEN RetainEach(d1, b_in, {BoolFalse})
              ELSE d1
    IN  IF d2 # doms THEN Pruned(d2) ELSE Unchanged

\* ReifiedMemberOfConstraint::revise; the target variable is ignored.
RECURSIVE RetainColumns(_, _, _, _)
RetainColumns(doms, vs, i, table) ==
    IF i > Len(vs) THEN doms
    ELSE RetainColumns(
             update(doms, vs[i], {val \in doms[vs[i]] : \E row \in table : row[i] = val}),
             vs, i + 1, table)

ReifiedMemberOfRevise(c, t, doms) ==
    LET vs == Front(c.vars)
        b == Last(c.vars)
        b_domain == doms[b]
        \* B -> Vars propagation
        d1 == IF b_domain = {BoolTrue}
              THEN RetainColumns(doms, vs, 1, c.data_set)
              ELSE doms
        \* Vars -> B propagation; reads the domains of the incoming solution
        possible == \E row \in c.data_set :
                        \A i \in 1..Len(vs) : row[i] \in doms[vs[i]]
        d2 == IF ~possible
              THEN update(d1, b, b_domain \cap {BoolFalse})
              ELSE d1
    IN  IF d2 # doms THEN Pruned(d2) ELSE Unchanged

\* ReifiedEqualConstraint::revise_xy
ReifiedEqualReviseXY(c, target_var, other_var, doms) ==
    LET b_domain == doms[c.vars[1]]
        target_domain == doms[target_var]
        other_domain == doms[other_var]
        new_target_domain ==
            IF b_domain = {BoolTrue} THEN intersect(target_domain, other_domain)
            ELSE IF b_domain = {BoolFalse} /\ is_singleton(other_domain)
                 THEN target_domain \ {get_singleton_value(other_domain)}
                 ELSE target_domain
    IN  PruneIfSmaller(doms, target_var, new_target_domain)

\* ReifiedEqualConstraint::revise_b
ReifiedEqualReviseB(c, doms) ==
    LET b == c.vars[1]
        b_domain == doms[b]
        x_domain == doms[c.vars[2]]
        y_domain == doms[c.vars[3]]
        to_false == b_domain \cap {BoolFalse}
        to_true == b_domain \cap {BoolTrue}
    IN  IF is_empty(intersect(x_domain, y_domain)) /\ len(to_false) < len(b_domain)
        THEN Pruned(update(doms, b, to_false))
        ELSE IF is_singleton(x_domain) /\ x_domain = y_domain
                /\ len(to_true) < len(b_domain)
             THEN Pruned(update(doms, b, to_true))
             ELSE Unchanged

\* ReifiedEqualConstraint::revise
ReifiedEqualRevise(c, t, doms) ==
    IF t = c.vars[1] THEN ReifiedEqualReviseB(c, doms)
    ELSE IF t = c.vars[2] THEN ReifiedEqualReviseXY(c, c.vars[2], c.vars[3], doms)
    ELSE IF t = c.vars[3] THEN ReifiedEqualReviseXY(c, c.vars[3], c.vars[2], doms)
    ELSE Error

\* the revise of the caller's FailingConstraint: Err(..) on an assigned target,
\* Ok(None) otherwise
FailingRevise(c, t, doms) ==
    IF is_singleton(doms[t]) THEN Error ELSE Unchanged

\* Constraint::revise, dispatched on the constraint object
revise(c, t, doms) ==
    CASE c.type = "NotEqual" -> NotEqualRevise(c, t, doms)
      [] c.type = "Equal" -> EqualRevise(c, t, doms)
      [] c.type = "AllDifferent" -> AllDifferentRevise(c, t, doms)
      [] c.type = "AbsDiffNotEqual" -> AbsDiffNotEqualRevise(c, t, doms)
      [] c.type = "SumOf" -> SumOfRevise(c, t, doms)
      [] c.type = "BooleanOr" -> BooleanOrRevise(c, t, doms)
      [] c.type = "ReifiedOr" -> ReifiedOrRevise(c, t, doms)
      [] c.type = "ReifiedMemberOf" -> ReifiedMemberOfRevise(c, t, doms)
      [] c.type = "ReifiedEqual" -> ReifiedEqualRevise(c, t, doms)
      [] c.type = "Failing" -> FailingRevise(c, t, doms)

\* Constraint::priority (no built-in constraint overrides the default)
priority(c) == NORMAL

(***************************************************************************)
(* WorkList: a BinaryHeap of WorkItems ordered by priority only, plus the  *)
(* queue_members set that suppresses duplicates.  The heap is modelled by  *)
(* the sequence of queued items; which of several items of the greatest    *)
(* priority a pop returns is not fixed by the ordering of WorkItem.        *)
(***************************************************************************)
WorkItem(p, v, c) == [priority |-> p, variable_id |-> v, constraint_id |-> c]

\* WorkList::new
WorkListNew == [queue |-> <<>>, queue_members |-> {}]

\* push_back without the test of queue_members
push_back_unchecked(wl, p, v, c) ==
    [queue |-> Append(wl.queue, WorkItem(p, v, c)),
     queue_members |-> wl.queue_members \cup {<<v, c>>}]

\* push_back that gives a queued pair the priority of the new push
push_back_reprioritise(wl, p, v, c) ==
    IF <<v, c>> \notin wl.queue_members
    THEN [queue |-> Append(wl.queue, WorkItem(p, v, c)),
          queue_members |-> wl.queue_members \cup {<<v, c>>}]
    ELSE [queue |-> [i \in 1..Len(wl.queue) |->
                        IF wl.queue[i].variable_id = v /\ wl.queue[i].constraint_id = c
                        THEN WorkItem(p, v, c) ELSE wl.queue[i]],
          queue_members |-> wl.queue_members]

\* WorkList::push_back
push_back(wl, p, v, c) ==
    IF <<v, c>> \notin wl.queue_members
    THEN [queue |-> Append(wl.queue, WorkItem(p, v, c)),
          queue_members |-> wl.queue_members \cup {<<v, c>>}]
    ELSE wl

\* a pop that may return any queued item
PopAnyPosition(wl) == 1..Len(wl.queue)

\* the positions BinaryHeap::pop may return: those of the greatest priority
PopCandidates(wl) ==
    {i \in 1..Len(wl.queue) :
        \A j \in 1..Len(wl.queue) : wl.queue[j].priority <= wl.queue[i].priority}

\* BinaryHeap::pop returns one item; which of several items of the greatest
\* priority it returns is fixed by the layout of the heap, which the sequence of
\* pushes and pops so far fixes.  `tie` names the rule: "Oldest" or "Newest"
\* takes the candidate pushed first or last, "Any" leaves the rule open.
PopChoices(wl) ==
    LET cands == PopCandidates(wl)
    IN  IF cands = {} \/ tie = "Any" THEN cands
        ELSE IF tie = "Oldest" THEN {CHOOSE i \in cands : \A j \in cands : i <= j}
        ELSE {CHOOSE i \in cands : \A j \in cands : i >= j}

RemoveAt(s, i) == SubSeq(s, 1, i - 1) \o SubSeq(s, i + 1, Len(s))

\* WorkList::pop_front, returning the item at position i
pop_front(wl, i) ==
    [queue |-> RemoveAt(wl.queue, i),
     queue_members |-> wl.queue_members
                         \ {<<wl.queue[i].variable_id, wl.queue[i].constraint_id>>}]

\* a run of push_back calls
RECURSIVE PushAll(_, _)
PushAll(wl, items) ==
    IF items = <<>> THEN wl
    ELSE PushAll(push_back(wl, Head(items).priority, Head(items).variable_id,
                           Head(items).constraint_id),
                 Tail(items))

(***************************************************************************)
(* SearchStrategy::propagate.                                              *)
(***************************************************************************)
\* the arcs of constraint cid, in the order of variables()
ArcsOf(cons, cid) ==
    [i \in 1..Len(cons[cid].vars) |->
        WorkItem(priority(cons[cid]), cons[cid].vars[i], cid)]

\* the seeding loop: every (variable, constraint) arc, constraint by constraint
RECURSIVE SeedItems(_, _)
SeedItems(cons, cid) ==
    IF cid > Len(cons) THEN <<>>
    ELSE ArcsOf(cons, cid) \o SeedItems(cons, cid + 1)

\* the seeding with the first variable of every constraint only
SeedFirstVariables(cons) ==
    PushAll(WorkListNew, [cid \in 1..Len(cons) |-> ArcsOf(cons, cid)[1]])

Seed(cons) == PushAll(WorkListNew, SeedItems(cons, 1))

\* the arcs pushed after target_var was pruned: for every entry of
\* dependency_graph[target_var], every other variable of that constraint
RECURSIVE Occurrences(_, _)
Occurrences(vs, v) ==
    IF vs = <<>> THEN 0
    ELSE (IF Head(vs) = v THEN 1 ELSE 0) + Occurrences(Tail(vs), v)

RECURSIVE Repeat(_, _)
Repeat(s, n) == IF n = 0 THEN <<>> ELSE s \o Repeat(s, n - 1)

NeighborArcs(cons, cid, target_var) ==
    LET arcs == ArcsOf(cons, cid)
    IN  SelectSeq(arcs, LAMBDA a : a.variable_id # target_var)

RECURSIVE DependentItems(_, _, _)
DependentItems(cons, cid, target_var) ==
    IF cid > Len(cons) THEN <<>>
    ELSE Repeat(NeighborArcs(cons, cid, target_var),
                Occurrences(cons[cid].vars, target_var))
         \o DependentItems(cons, cid + 1, target_var)

\* the test that lets a revision's result replace the current solution
Accepts(old_domain_size, new_domain_size) == new_domain_size < old_domain_size

\* the loop iteration with the neighbours pushed after every revision, pruned
\* or not
PropagateIterationRequeue(cons, sol, wl, i) ==
    LET item == wl.queue[i]
        target_var == item.variable_id
        popped == pop_front(wl, i)
        r == revise(cons[item.constraint_id], target_var, sol)
        requeued == PushAll(popped, DependentItems(cons, 1, target_var))
    IN  IF r.kind = "Error"
        THEN [kind |-> "Err", solution |-> sol, worklist |-> popped, pruning |-> FALSE]
        ELSE IF r.kind = "Unchanged"
        THEN [kind |-> "Loop", solution |-> sol, worklist |-> requeued, pruning |-> FALSE]
        ELSE IF len(r.doms[target_var]) = 0
        THEN [kind |-> "None", solution |-> sol, worklist |-> popped, pruning |-> FALSE]
        ELSE IF Accepts(len(sol[target_var]), len(r.doms[target_var]))
        THEN [kind |-> "Loop", solution |-> r.doms, worklist |-> requeued,
              pruning |-> TRUE]
        ELSE [kind |-> "Loop", solution |-> sol, worklist |-> requeued, pruning |-> FALSE]

\* One iteration of the `while let Some(..) = worklist.pop_front()` loop,
\* popping position i.  kind is "None" (return Ok(None)), "Err" (the `?`)
\* or "Loop" (go round again).
PropagateIteration(cons, sol, wl, i) ==
    LET item == wl.queue[i]
        target_var == item.variable_id
        constraint_id == item.constraint_id
        popped == pop_front(wl, i)
        r == revise(cons[constraint_id], target_var, sol)
        old_domain_size == len(sol[target_var])
        new_domain_size == len(r.doms[target_var])
    IN  IF r.kind = "Error"
        THEN [kind |-> "Err", solution |-> sol, worklist |-> popped, pruning |-> FALSE]
        ELSE IF r.kind = "Unchanged"
        THEN [kind |-> "Loop", solution |-> sol, worklist |-> popped, pruning |-> FALSE]
        ELSE IF new_domain_size = 0
        THEN [kind |-> "None", solution |-> sol, worklist |-> popped, pruning |-> FALSE]
        ELSE IF Accepts(old_domain_size, new_domain_size)
        THEN [kind |-> "Loop", solution |-> r.doms,
              worklist |-> PushAll(popped, DependentItems(cons, 1, target_var)),
              pruning |-> TRUE]
        ELSE [kind |-> "Loop", solution |-> sol, worklist |-> popped, pruning |-> FALSE]

(***************************************************************************)
(* Heuristics.                                                             *)
(***************************************************************************)
Unassigned(doms) == {v \in DOMAIN doms : len(doms[v]) > 1}

\* SelectFirstHeuristic::select_variable; defined when Unassigned is not empty
select_variable(doms) ==
    CHOOSE v \in Unassigned(doms) : \A w \in Unassigned(doms) : v <= w

\* RandomVariableHeuristic::select_variable: any unassigned variable
RandomChoices(doms) == Unassigned(doms)

\* the variables select_variable may return
SelectChoices(doms) ==
    IF Unassigned(doms) = {} THEN {}
    ELSE IF variable_heuristic = "Random" THEN RandomChoices(doms)
    ELSE {select_variable(doms)}

\* IdentityValueHeuristic::order_values yields the values of the domain in the
\* set's iteration order: every value once, in an order the search does not
\* control.  The values not yet tried are kept as a set.
order_values(v, doms) == doms[v]

\* order_values without the sort: the values come in the set's iteration order
DeterministicNextUnsorted(values) == values

\* DeterministicIdentityValueHeuristic::order_values collects the values and
\* sorts them: of the values not yet tried, the least comes next.
DeterministicNext(values) == {get_min_value(values)}

\* the values the loop over order_values may yield next
NextValues(values) ==
    IF values = {} THEN {}
    ELSE IF value_heuristic = "Deterministic" THEN DeterministicNext(values)
    ELSE values

\* Vec::sort on the values collected from a set
RECURSIVE SortedSeq(_)
SortedSeq(values) ==
    IF values = {} THEN <<>>
    ELSE <<get_min_value(values)>> \o SortedSeq(values \ {get_min_value(values)})

\* im::HashSet::intersection
intersection(a, b) == a \cap b

\* im::HashSet::difference, which the im crate defines as an alias of
\* symmetric_difference (its set difference is relative_complement)
difference(a, b) == (a \ b) \cup (b \ a)

\* the singleton values of the variables other than variable_id
used_values(variable_id, doms) ==
    {get_singleton_value(doms[w]) :
        w \in {x \in DOMAIN doms : x # variable_id /\ is_singleton(doms[x])}}

\* PreferUsedValuesHeuristic::order_values
PreferUsedOrderValues(variable_id, doms) ==
    LET domain_values == doms[variable_id]
        used == used_values(variable_id, doms)
        preferred_values == intersection(domain_values, used)
        other_values == difference(domain_values, used)
    IN  SortedSeq(preferred_values) \o SortedSeq(other_values)

\* the first value of the sequence s that is in the set values
FirstIn(s, values) == s[CHOOSE i \in 1..Len(s) :
                        s[i] \in values /\ \A j \in 1..(i - 1) : s[j] \notin values]

\* the values value_heuristic.order_values(var_to_branch, &solution) yields,
\* all of them still to be tried
ValuesToTry(var_to_branch, doms) ==
    IF value_heuristic = "PreferUsed"
    THEN Range(PreferUsedOrderValues(var_to_branch, doms))
    ELSE order_values(var_to_branch, doms)

\* the loop taking any of the values left, whatever the heuristic
NextOfFrameAnyOrder(frame) == frame.values

\* the values the loop of a frame of the search may take next
NextOfFrame(frame) ==
    IF frame.values = {} THEN {}
    ELSE IF value_heuristic = "PreferUsed"
    THEN {FirstIn(PreferUsedOrderValues(frame.var_to_branch, frame.solution),
                  frame.values)}
    ELSE NextValues(frame.values)

\* the guess: HashSetDomain::new(hashset!{value}) put in place of D(var)
Guess(doms, v, value) == update(doms, v, {value})

(***************************************************************************)
(* The problems solved: a list of constraint objects and an initial        *)
(* Solution whose domains are all populated (non-empty).  Variables are    *)
(* numbered from 0; constraints are numbered from 1 (ConstraintId + 1).    *)
(***************************************************************************)
IntDomains == (SUBSET IntValues) \ {{}}
BoolDomains == (SUBSET BoolValues) \ {{}}

\* the initial solutions over variables 0..(Len(kinds) - 1), kinds[i] telling
\* whether variable i - 1 holds Int or Bool values
InitialSolutions(kinds) ==
    {d \in [0..(Len(kinds) - 1) -> IntDomains \cup BoolDomains] :
        \A v \in DOMAIN d :
            d[v] \in (IF kinds[v + 1] = "Int" THEN IntDomains ELSE BoolDomains)}

ProblemsOf(cons, kinds) ==
    {[cons |-> cons, doms |-> d] : d \in InitialSolutions(kinds)}

MemberTable == {<<1, 1>>, <<2, 2>>}

Problems ==
    ProblemsOf(<<AllDifferentConstraint(<<0, 1, 2>>)>>, <<"Int", "Int", "Int">>)
    \cup ProblemsOf(<<NotEqualConstraint(0, 1),
                      AbsoluteDifferenceNotEqualConstraint(0, 1, 2)>>,
                    <<"Int", "Int">>)
    \cup ProblemsOf(<<EqualConstraint(0, 1)>>, <<"Int", "Int">>)
    \cup ProblemsOf(<<SumOfConstraint(<<0, 1>>, 2)>>, <<"Int", "Int", "Int">>)
    \cup ProblemsOf(<<SumOfConstraint(<<0, 0>>, 1)>>, <<"Int", "Int">>)
    \cup ProblemsOf(<<BooleanOrConstraint(<<0, 1>>)>>, <<"Bool", "Bool">>)
    \cup ProblemsOf(<<ReifiedOrConstraint(2, <<0, 1>>)>>, <<"Bool", "Bool", "Bool">>)
    \cup ProblemsOf(<<ReifiedEqualConstraint(0, 1, 2)>>, <<"Bool", "Int", "Int">>)
    \cup ProblemsOf(<<ReifiedMemberOfConstraint(2, <<0, 1>>, MemberTable)>>,
                    <<"Int", "Int", "Bool">>)
    \cup ProblemsOf(<<NotEqualConstraint(0, 2), ReifiedOrConstraint(3, <<1, 2>>)>>,
                    <<"Bool", "Bool", "Bool", "Bool">>)
    \cup ProblemsOf(<<EqualConstraint(0, 1), ReifiedOrConstraint(1, <<2, 3>>)>>,
                    <<"Bool", "Bool", "Bool", "Bool">>)

Strategies == {"Backtracking", "PropagationOnly"}

(***************************************************************************)
(* State.                                                                  *)
(*   constraints, initial  the arguments of solve                          *)
(*   strategy              the SearchStrategy in use                       *)
(*   variable_heuristic,   the VariableSelectionHeuristic and the          *)
(*   value_heuristic       ValueOrderingHeuristic of BacktrackingSearch    *)
(*   ordered               the last call of order_values made on its own   *)
(*                         and the values it yielded, in order             *)
(*   observed              what an observer of the run has seen, if there  *)
(*                         is one: the arcs revised by the running         *)
(*                         propagate and the guesses made by the solve     *)
(*   intersected           the last pair of intersect calls made on two    *)
(*                         domains used alone, and what they returned      *)
(*   tie                   the rule by which the heap breaks ties           *)
(*   restart               the locals of RestartingSearch::solve, if the   *)
(*                         strategy is wrapped in one                      *)
(*   op                    the last call made on a WorkList used alone      *)
(*   pc                    "start", "propagate" (in the propagation loop), *)
(*                         "propagated" (propagate has returned), "search" *)
(*                         (search is being entered), "loop" (in the value *)
(*                         loop of the top frame), "done"                  *)
(*   solution, worklist    the locals of propagate                         *)
(*   ret                   the caller of the running propagate             *)
(*   prop_result           what propagate returned: "Some", "None", "Err"  *)
(*   stack                 the frames of the recursive search              *)
(*   result                what solve returned                             *)
(*   stats                 SearchStats                                     *)
(*   run, first            the number of the solve call and the solution   *)
(*                         the first call returned                         *)
(*   last_rev              the last call of revise and its outcome         *)
(***************************************************************************)
StatsDefault(cons) ==
    [nodes_visited |-> 0, backtracks |-> 0,
     constraint_stats |-> [c \in 1..Len(cons) |-> [revisions |-> 0, prunings |-> 0]]]

NoRev == [target |-> 0, constraint_id |-> 0, before |-> <<>>, outcome |-> Unchanged,
          pushed |-> FALSE]

Pending == [kind |-> "Pending", solution |-> <<>>]
Some(doms) == [kind |-> "Some", solution |-> doms]
None == [kind |-> "None", solution |-> <<>>]
Err == [kind |-> "Err", solution |-> <<>>]

\* no RestartingSearch around the strategy
NoRestarting == [active |-> FALSE]

\* no call of order_values made on its own yet
NoOrder == [variable_id |-> 0, values |-> <<>>]

\* nobody observes the run
NotObserved == [on |-> FALSE, revised |-> {}, guesses |-> 0]

\* an observer who has seen nothing yet
Observing == [on |-> TRUE, revised |-> {}, guesses |-> 0]

\* what the observer has seen once propagate is entered: no arc revised yet,
\* and one more guess if it is search that calls, none if it is solve
Entered(o, caller) ==
    IF ~o.on THEN o
    ELSE [on |-> TRUE, revised |-> {},
          guesses |-> IF caller = "search" THEN o.guesses + 1 ELSE 0]

\* what the observer has seen once the popped item has been revised
Revised(o, item) ==
    IF ~o.on THEN o
    ELSE [o EXCEPT !.revised = @ \cup {<<item.variable_id, item.constraint_id>>}]

\* no call of intersect made on its own yet
NoIntersect == [a |-> <<>>, b |-> <<>>, ab |-> <<>>, ba |-> <<>>]

\* no call of the worklist made yet.  `returned` is what pop_front returned,
\* `last_popped` the item the latest successful pop_front took off the queue.
NoItem == WorkItem(0, 0, 0)
NoOp == [kind |-> "none", item |-> NoItem, before |-> WorkListNew,
         returned |-> "nothing", last_popped |-> NoItem]

Init ==
    \E p \in Problems, st \in Strategies :
        /\ constraints = p.cons
        /\ initial = p.doms
        /\ strategy = st
        /\ variable_heuristic = "SelectFirst"
        /\ value_heuristic = "Identity"
        /\ ordered = NoOrder
        /\ observed = NotObserved
        /\ intersected = NoIntersect
        /\ tie = "Any"
        /\ restart = NoRestarting
        /\ op = NoOp
        /\ pc = "start"
        /\ solution = p.doms
        /\ worklist = WorkListNew
        /\ ret = "solve"
        /\ prop_result = "Pending"
        /\ stack = <<>>
        /\ result = Pending
        /\ stats = StatsDefault(p.cons)
        /\ run = 1
        /\ first = <<>>
        /\ last_rev = NoRev

\* the entry of propagate: the locals are initialised and the worklist seeded
EnterPropagate(doms, caller) ==
    /\ solution' = doms
    /\ worklist' = Seed(constraints)
    /\ ret' = caller
    /\ prop_result' = "Pending"
    /\ pc' = "propagate"
    /\ observed' = Entered(observed, caller)

\* BacktrackingSearch::solve up to its call of propagate
BacktrackingSolve ==
    /\ pc = "start"
    /\ strategy = "Backtracking"
    /\ stats' = StatsDefault(constraints)
    /\ EnterPropagate(initial, "solve")
    /\ UNCHANGED <<constraints, initial, strategy, variable_heuristic, value_heuristic,
                   ordered, intersected, tie, restart, op, stack, result, run, first, last_rev>>

\* PropagationOnlySearch::solve up to its call of propagate
PropagationOnlySolve ==
    /\ pc = "start"
    /\ strategy = "PropagationOnly"
    /\ stats' = StatsDefault(constraints)
    /\ EnterPropagate(initial, "solve")
    /\ UNCHANGED <<constraints, initial, strategy, variable_heuristic, value_heuristic,
                   ordered, intersected, tie, restart, op, stack, result, run, first, last_rev>>

\* one iteration of the loop of propagate
Revise ==
    /\ pc = "propagate"
    /\ \E i \in PopChoices(worklist) :
        LET it == PropagateIteration(constraints, solution, worklist, i)
            item == worklist.queue[i]
            cid == item.constraint_id
            cs == stats.constraint_stats[cid]
        IN  /\ solution' = it.solution
            /\ worklist' = it.worklist
            /\ stats' = [stats EXCEPT !.constraint_stats[cid] =
                            [revisions |-> cs.revisions + 1,
                             prunings |-> cs.prunings + (IF it.pruning THEN 1 ELSE 0)]]
            /\ observed' = Revised(observed, item)
            /\ last_rev' = [target |-> item.variable_id, constraint_id |-> cid,
                            before |-> solution,
                            outcome |-> revise(constraints[cid], item.variable_id, solution),
                            pushed |-> it.worklist # pop_front(worklist, i)]
            /\ IF it.kind = "Loop"
               THEN UNCHANGED <<pc, prop_result>>
               ELSE pc' = "propagated" /\ prop_result' = it.kind
    /\ UNCHANGED <<constraints, initial, strategy, variable_heuristic, value_heuristic,
                   ordered, intersected, tie, restart, op, ret, stack, result, run, first>>

\* the loop of propagate ends: Ok(Some(solution))
PropagateReturn ==
    /\ pc = "propagate"
    /\ worklist.queue = <<>>
    /\ pc' = "propagated"
    /\ prop_result' = "Some"
    /\ UNCHANGED <<constraints, initial, strategy, variable_heuristic, value_heuristic,
                   ordered, observed, intersected, tie, restart, op, solution, worklist, ret, stack,
                   result, stats, run, first, last_rev>>

\* BacktrackingSearch::solve after propagate has returned
BacktrackingSolveReturn ==
    /\ pc = "propagated"
    /\ ret = "solve"
    /\ strategy = "Backtracking"
    /\ IF prop_result = "Err" THEN result' = Err /\ pc' = "done"
       ELSE IF prop_result = "None" THEN result' = None /\ pc' = "done"
       ELSE IF is_complete(solution) THEN result' = Some(solution) /\ pc' = "done"
       ELSE pc' = "search" /\ UNCHANGED result
    /\ UNCHANGED <<constraints, initial, strategy, variable_heuristic, value_heuristic,
                   ordered, observed, intersected, tie, restart, op, solution, worklist, ret,
                   prop_result, stack, stats, run, first, last_rev>>

\* PropagationOnlySearch::solve after propagate has returned
PropagationOnlySolveReturn ==
    /\ pc = "propagated"
    /\ ret = "solve"
    /\ strategy = "PropagationOnly"
    /\ result' = (IF prop_result = "Some" THEN Some(solution)
                  ELSE IF prop_result = "None" THEN None ELSE Err)
    /\ pc' = "done"
    /\ UNCHANGED <<constraints, initial, strategy, variable_heuristic, value_heuristic,
                   ordered, observed, intersected, tie, restart, op, solution, worklist, ret,
                   prop_result, stack, stats, run, first, last_rev>>

\* a second PropagationOnlySearch::solve, on the solution the first returned
PropagationOnlySolveAgain ==
    /\ pc = "done"
    /\ strategy = "PropagationOnly"
    /\ run = 1
    /\ result.kind = "Some"
    /\ run' = 2
    /\ first' = result.solution
    /\ result' = Pending
    /\ stats' = StatsDefault(constraints)
    /\ EnterPropagate(result.solution, "solve")
    /\ UNCHANGED <<constraints, initial, strategy, variable_heuristic, value_heuristic,
                   ordered, intersected, tie, restart, op, stack, last_rev>>

\* BacktrackingSearch::search from its entry to the value loop, or to its
\* `return Ok((Some(solution), stats))`, which every caller passes up
SearchEnter ==
    /\ pc = "search"
    /\ stats' = [stats EXCEPT !.nodes_visited = @ + 1]
    /\ IF is_complete(solution) \/ Unassigned(solution) = {}
       THEN /\ result' = Some(solution)
            /\ stack' = <<>>
            /\ pc' = "done"
       ELSE /\ \E var_to_branch \in SelectChoices(solution) :
                  stack' = Append(stack,
                      [solution |-> solution,
                       var_to_branch |-> var_to_branch,
                       values |-> ValuesToTry(var_to_branch, solution)])
            /\ pc' = "loop"
            /\ UNCHANGED result
    /\ UNCHANGED <<constraints, initial, strategy, variable_heuristic, value_heuristic,
                   ordered, observed, intersected, tie, restart, op, solution, worklist, ret,
                   prop_result, run, first, last_rev>>

\* the value loop with the guess built on the solution the last propagate
\* left behind
SearchGuessOnCurrent ==
    /\ pc = "loop"
    /\ LET frame == stack[Len(stack)]
       IN  \E value \in NextOfFrame(frame) :
             /\ stack' = [stack EXCEPT ![Len(stack)].values = @ \ {value}]
             /\ EnterPropagate(Guess(solution, frame.var_to_branch, value), "search")
    /\ UNCHANGED <<constraints, initial, strategy, variable_heuristic, value_heuristic,
                   ordered, intersected, tie, restart, op, result, stats, run, first,
                   last_rev>>

\* the value loop takes its next value, builds the guess and calls propagate
SearchGuess ==
    /\ pc = "loop"
    /\ LET frame == stack[Len(stack)]
       IN  \E value \in NextOfFrame(frame) :
             /\ stack' = [stack EXCEPT ![Len(stack)].values = @ \ {value}]
             /\ EnterPropagate(Guess(frame.solution, frame.var_to_branch, value), "search")
    /\ UNCHANGED <<constraints, initial, strategy, variable_heuristic, value_heuristic,
                   ordered, intersected, tie, restart, op, result, stats, run, first, last_rev>>

\* the value loop with an error of propagate taken for a failed guess
SearchGuessReturnSwallow ==
    /\ pc = "propagated"
    /\ ret = "search"
    /\ IF prop_result = "Some"
       THEN pc' = "search" /\ UNCHANGED <<result, stack, stats>>
       ELSE /\ stats' = [stats EXCEPT !.backtracks = @ + 1]
            /\ pc' = "loop"
            /\ UNCHANGED <<result, stack>>
    /\ UNCHANGED <<constraints, initial, strategy, variable_heuristic, value_heuristic,
                   ordered, observed, intersected, tie, restart, op,
                   solution, worklist, ret, prop_result, run, first, last_rev>>

\* the value loop going on to its next value without counting the failed one
SearchGuessReturnUncounted ==
    /\ pc = "propagated"
    /\ ret = "search"
    /\ IF prop_result = "Err"
       THEN result' = Err /\ stack' = <<>> /\ pc' = "done"
       ELSE IF prop_result = "Some"
       THEN pc' = "search" /\ UNCHANGED <<result, stack>>
       ELSE pc' = "loop" /\ UNCHANGED <<result, stack>>
    /\ UNCHANGED <<constraints, initial, strategy, variable_heuristic, value_heuristic,
                   ordered, observed, intersected, tie, restart, op, solution,
                   worklist, ret, prop_result, stats, run, first, last_rev>>

\* the value loop after propagate has returned for the guess
SearchGuessReturn ==
    /\ pc = "propagated"
    /\ ret = "search"
    /\ IF prop_result = "Err"
       THEN result' = Err /\ stack' = <<>> /\ pc' = "done" /\ UNCHANGED stats
       ELSE IF prop_result = "Some"
       THEN pc' = "search" /\ UNCHANGED <<result, stack, stats>>
       ELSE /\ stats' = [stats EXCEPT !.backtracks = @ + 1]
            /\ pc' = "loop"
            /\ UNCHANGED <<result, stack>>
    /\ UNCHANGED <<constraints, initial, strategy, variable_heuristic, value_heuristic,
                   ordered, observed, intersected, tie, restart, op, solution, worklist, ret,
                   prop_result, run, first, last_rev>>

\* the value loop waiting for a value that will not come
SearchExhaustedWaits ==
    /\ pc = "loop"
    /\ stack[Len(stack)].values = {}
    /\ UNCHANGED vars

\* the value loop is exhausted: search returns (None, stats); the calling
\* search counts a backtrack and goes on with its own loop
SearchExhausted ==
    /\ pc = "loop"
    /\ stack[Len(stack)].values = {}
    /\ stack' = Front(stack)
    /\ IF Len(stack) = 1
       THEN result' = None /\ pc' = "done" /\ UNCHANGED stats
       ELSE /\ stats' = [stats EXCEPT !.backtracks = @ + 1]
            /\ pc' = "loop"
            /\ UNCHANGED result
    /\ UNCHANGED <<constraints, initial, strategy, variable_heuristic, value_heuristic,
                   ordered, observed, intersected, tie, restart, op, solution, worklist, ret,
                   prop_result, run, first, last_rev>>

Next ==
    \/ BacktrackingSolve
    \/ PropagationOnlySolve
    \/ Revise
    \/ PropagateReturn
    \/ BacktrackingSolveReturn
    \/ PropagationOnlySolveReturn
    \/ PropagationOnlySolveAgain
    \/ SearchEnter
    \/ SearchGuess
    \/ SearchGuessReturn
    \/ SearchExhausted

Spec == Init /\ [][Next]_vars

(***************************************************************************)
(* RestartingSearch: an inner strategy run again and again from the        *)
(* original initial solution, as long as it finds nothing and the          *)
(* RestartPolicy says so.                                                  *)
(***************************************************************************)
NoRestartPolicy == [kind |-> "NoRestart", max_backtracks |-> 0]
RestartAfterNBacktracks(n) == [kind |-> "AfterN", max_backtracks |-> n]

Policies == {NoRestartPolicy} \cup {RestartAfterNBacktracks(n) : n \in 0..MaxThreshold}

\* RestartPolicy::should_restart
should_restart(policy, s) ==
    IF policy.kind = "NoRestart" THEN FALSE
    ELSE s.backtracks >= policy.max_backtracks

\* cumulative_stats replaced by the stats of the latest run
AccumulateLatest(cumulative_stats, search_stats) == search_stats

\* the accumulation of one run's stats into cumulative_stats
Accumulate(cumulative_stats, search_stats) ==
    [nodes_visited |-> cumulative_stats.nodes_visited + search_stats.nodes_visited,
     backtracks |-> cumulative_stats.backtracks + search_stats.backtracks,
     constraint_stats |->
        [id \in DOMAIN cumulative_stats.constraint_stats |->
            [revisions |-> cumulative_stats.constraint_stats[id].revisions
                             + search_stats.constraint_stats[id].revisions,
             prunings |-> cumulative_stats.constraint_stats[id].prunings
                            + search_stats.constraint_stats[id].prunings]]]

\* the return left to the policy alone, a solution found or not
RestartingReturnsPolicyOnly(res, policy, search_stats) ==
    ~should_restart(policy, search_stats)

\* `if solution.is_some() || !self.restart_policy.should_restart(&search_stats)`
RestartingReturns(res, policy, search_stats) ==
    res.kind = "Some" \/ ~should_restart(policy, search_stats)

\* what RestartingSearch::solve returns: the solution and the cumulative stats
Returned(res, cumulative_stats) ==
    [kind |-> res.kind, solution |-> res.solution, stats |-> cumulative_stats]

\* the locals of RestartingSearch::solve on entry.  `runs` and `history` are
\* the number and the stats of the inner runs accumulated so far, and
\* `all_counted` tells that no run has been left out of them.
Restarting(policy, cons) ==
    [active |-> TRUE, policy |-> policy, cumulative_stats |-> StatsDefault(cons),
     runs |-> 0, history |-> <<>>, all_counted |-> TRUE, decision |-> "none",
     result |-> Pending]

\* The problems given to a RestartingSearch.
RestartProblems ==
    ProblemsOf(<<NotEqualConstraint(0, 1), NotEqualConstraint(1, 2),
                 NotEqualConstraint(0, 2)>>, <<"Bool", "Bool", "Bool", "Bool">>)
    \cup ProblemsOf(<<NotEqualConstraint(0, 1), FailingConstraint(<<1>>)>>,
                    <<"Bool", "Bool">>)
    \cup ProblemsOf(<<NotEqualConstraint(0, 1),
                      AbsoluteDifferenceNotEqualConstraint(0, 1, 2)>>,
                    <<"Int", "Int">>)

\* The problems whose solve is followed under fairness.
FairProblems ==
    ProblemsOf(<<NotEqualConstraint(0, 1),
                 AbsoluteDifferenceNotEqualConstraint(0, 1, 2)>>,
               <<"Int", "Int">>)
    \cup ProblemsOf(<<NotEqualConstraint(0, 1), FailingConstraint(<<1>>)>>,
                    <<"Bool", "Bool">>)

\* the start of a solve of one of `problems`, by a plain strategy or by a
\* RestartingSearch around it
RestartInit(problems, variable_heuristics, ties) ==
    \E p \in problems, st \in Strategies, t \in ties, vh \in variable_heuristics :
      \E r \in {NoRestarting} \cup {Restarting(policy, p.cons) : policy \in Policies} :
        /\ constraints = p.cons
        /\ initial = p.doms
        /\ strategy = st
        /\ variable_heuristic = vh
        /\ value_heuristic = "Identity"
        /\ ordered = NoOrder
        /\ observed = NotObserved
        /\ intersected = NoIntersect
        /\ tie = t
        /\ restart = r
        /\ op = NoOp
        /\ pc = "start"
        /\ solution = p.doms
        /\ worklist = WorkListNew
        /\ ret = "solve"
        /\ prop_result = "Pending"
        /\ stack = <<>>
        /\ result = Pending
        /\ stats = StatsDefault(p.cons)
        /\ run = 1
        /\ first = <<>>
        /\ last_rev = NoRev

InitRestart == RestartInit(RestartProblems, {"SelectFirst", "Random"}, {"Oldest"})

InitRestartFair == RestartInit(FairProblems, {"SelectFirst"}, {"Oldest"})

\* RestartingSearch::solve after the inner solve has returned: the `?`, the
\* accumulation of the run's stats, and the return or the next round of the
\* loop, which calls the inner solve on a clone of initial_solution.  Of the
\* runs beyond MaxRuns the stats are not accumulated.
RestartingSolve ==
    /\ pc = "done"
    /\ restart.active
    /\ IF result.kind = "Err"
       THEN /\ restart' = [restart EXCEPT !.result = Err, !.decision = "error"]
            /\ pc' = "returned"
            /\ UNCHANGED <<result, solution, worklist, ret, prop_result, stack, stats,
                           last_rev>>
       ELSE LET counted == restart.runs < MaxRuns
                cumulative_stats ==
                    IF counted THEN Accumulate(restart.cumulative_stats, stats)
                    ELSE restart.cumulative_stats
                after == [restart EXCEPT
                            !.cumulative_stats = cumulative_stats,
                            !.runs = IF counted THEN @ + 1 ELSE @,
                            !.all_counted = counted,
                            !.history = IF counted THEN Append(@, stats) ELSE @]
            IN  IF RestartingReturns(result, restart.policy, stats)
                THEN /\ restart' = [after EXCEPT
                                       !.result = Returned(result, cumulative_stats),
                                       !.decision = "return"]
                     /\ pc' = "returned"
                     /\ UNCHANGED <<result, solution, worklist, ret, prop_result,
                                    stack, stats, last_rev>>
                ELSE /\ restart' = [after EXCEPT !.decision = "restart"]
                     /\ pc' = "start"
                     /\ result' = Pending
                     /\ solution' = initial
                     /\ worklist' = WorkListNew
                     /\ ret' = "solve"
                     /\ prop_result' = "Pending"
                     /\ stack' = <<>>
                     /\ stats' = StatsDefault(constraints)
                     /\ last_rev' = NoRev
    /\ UNCHANGED <<constraints, initial, strategy, variable_heuristic, value_heuristic,
                   ordered, observed, intersected, tie, op, run, first>>

NextRestart ==
    \/ BacktrackingSolve
    \/ PropagationOnlySolve
    \/ Revise
    \/ PropagateReturn
    \/ BacktrackingSolveReturn
    \/ PropagationOnlySolveReturn
    \/ SearchEnter
    \/ SearchGuess
    \/ SearchGuessReturn
    \/ SearchExhausted
    \/ RestartingSolve

SpecRestart == InitRestart /\ [][NextRestart]_vars

\* solve runs on the caller's thread: it goes on as long as it can
SpecRestartFair == InitRestartFair /\ [][NextRestart]_vars /\ WF_vars(NextRestart)

(***************************************************************************)
(* The relation each constraint is documented to enforce, over an          *)
(* assignment a of one value to every variable.                            *)
(***************************************************************************)
Abs(x) == IF x < 0 THEN -x ELSE x

Holds(c, a) ==
    CASE c.type = "NotEqual" -> a[c.vars[1]] # a[c.vars[2]]
      [] c.type = "Equal" -> a[c.vars[1]] = a[c.vars[2]]
      [] c.type = "AllDifferent" ->
            \A i, j \in 1..Len(c.vars) : i # j => a[c.vars[i]] # a[c.vars[j]]
      [] c.type = "AbsDiffNotEqual" -> Abs(a[c.vars[1]] - a[c.vars[2]]) # c.c
      [] c.type = "SumOf" ->
            SumSeq([i \in 1..(Len(c.vars) - 1) |-> a[c.vars[i]]]) = a[Last(c.vars)]
      [] c.type = "BooleanOr" -> \E i \in 1..Len(c.vars) : a[c.vars[i]] = BoolTrue
      [] c.type = "ReifiedOr" ->
            (a[Last(c.vars)] = BoolTrue)
                <=> (\E i \in 1..(Len(c.vars) - 1) : a[c.vars[i]] = BoolTrue)
      [] c.type = "ReifiedEqual" ->
            (a[c.vars[1]] = BoolTrue) <=> (a[c.vars[2]] = a[c.vars[3]])
      [] c.type = "ReifiedMemberOf" ->
            (a[Last(c.vars)] = BoolTrue)
                <=> ([i \in 1..(Len(c.vars) - 1) |-> a[c.vars[i]]] \in c.data_set)
      [] c.type = "Failing" -> TRUE

\* the assignments that take every variable's value from its domain
Assignments(doms) ==
    {a \in [DOMAIN doms -> IntValues \cup BoolValues] :
        \A v \in DOMAIN doms : a[v] \in doms[v]}

Satisfiable(cons, doms) ==
    \E a \in Assignments(doms) : \A cid \in 1..Len(cons) : Holds(cons[cid], a)

\* the (variable, constraint) arcs of the problem
Arcs(cons) ==
    UNION {{<<cons[cid].vars[i], cid>> : i \in 1..Len(cons[cid].vars)} :
              cid \in 1..Len(cons)}

RECURSIVE SumRevisions(_, _)
SumRevisions(cs, cid) ==
    IF cid > Len(cs) THEN 0 ELSE cs[cid].revisions + SumRevisions(cs, cid + 1)

\* the number of revise calls recorded in the stats
TotalRevisions == SumRevisions(stats.constraint_stats, 1)

RECURSIVE SumSizes(_, _)
SumSizes(doms, vs) ==
    IF vs = {} THEN 0
    ELSE LET v == CHOOSE w \in vs : TRUE
         IN  len(doms[v]) + SumSizes(doms, vs \ {v})

\* the total size of the domains of a solution
TotalSize(doms) == SumSizes(doms, DOMAIN doms)

SolveReturnedSome ==
    pc = "done" /\ strategy = "Backtracking" /\ result.kind = "Some"

PropagateReturnedSome == pc = "propagated" /\ prop_result = "Some"

\* C1: whenever solve returns Some(solution), the values assigned in the
\* solution satisfy the relation of every constraint of the problem.
C1_SolutionSatisfiesConstraints ==
    SolveReturnedSome =>
        \A a \in Assignments(result.solution) :
            \A cid \in 1..Len(constraints) : Holds(constraints[cid], a)

\* C2: whenever BacktrackingSearch.solve returns Some(solution), from initial
\* domains that are all non-empty, every domain of the solution is a singleton.
C2_SolutionIsComplete ==
    SolveReturnedSome => \A v \in DOMAIN result.solution : is_singleton(result.solution[v])

\* C3: whenever solve returns Some(solution), revising any variable of any
\* constraint on the solution returns Unchanged.
C3_SolutionIsFixedPoint ==
    SolveReturnedSome =>
        \A cid \in 1..Len(constraints) :
            \A v \in Range(constraints[cid].vars) :
                revise(constraints[cid], v, result.solution).kind = "Unchanged"

\* C4: if some assignment of one value per variable, taken from the initial
\* domains, satisfies all constraints, BacktrackingSearch.solve returns Some.
C4_Completeness ==
    (pc = "done" /\ strategy = "Backtracking" /\ Satisfiable(constraints, initial))
        => result.kind = "Some"

\* C5: a solution that propagate returns as Some contains no empty domain.
C5_PropagatedHasNoEmptyDomain ==
    PropagateReturnedSome => \A v \in DOMAIN solution : ~is_empty(solution[v])

\* C6: whenever propagate returns Some(s), revising any variable of any
\* constraint on s leaves every domain unchanged.
C6_PropagatedIsArcConsistent ==
    PropagateReturnedSome =>
        \A cid \in 1..Len(constraints) :
            \A v \in Range(constraints[cid].vars) :
                LET r == revise(constraints[cid], v, solution)
                IN  r.kind = "Pruned" => r.doms = solution

\* C7: propagating the solution a propagation returned gives Some with the
\* same domains.
C7_PropagationIsIdempotent ==
    (pc = "done" /\ strategy = "PropagationOnly" /\ run = 2)
        => (result.kind = "Some" /\ result.solution = first)

\* C8: whenever revise(t, s) returns Pruned(s'), the domain of t in s' is a
\* proper subset of its domain in s and every other domain is the same.
C8_PrunedChangesOnlyTarget ==
    last_rev.outcome.kind = "Pruned" =>
        LET t == last_rev.target
            s == last_rev.before
            s1 == last_rev.outcome.doms
        IN  /\ s1[t] \subseteq s[t]
            /\ s1[t] # s[t]
            /\ \A v \in DOMAIN s : v # t => s1[v] = s[v]

\* C9: domains only shrink: every solution reached during a propagate or solve
\* invocation, intermediate or returned, has each variable's domain inside
\* that variable's initial domain.
C9_DomainsOnlyShrink ==
    /\ \A v \in DOMAIN initial : solution[v] \subseteq initial[v]
    /\ \A i \in 1..Len(stack) :
          \A v \in DOMAIN initial : stack[i].solution[v] \subseteq initial[v]
    /\ result.kind = "Some" =>
          \A v \in DOMAIN initial : result.solution[v] \subseteq initial[v]

\* a solve that backtracked and returned a solution smaller than the initial one
C9_Witness ==
    /\ SolveReturnedSome
    /\ stats.backtracks >= 1
    /\ \E v \in DOMAIN initial : result.solution[v] # initial[v]

\* C10: propagate terminates: after seeding, arcs are pushed only by an
\* iteration in which some domain strictly shrank, and the number of
\* revisions of one invocation is at most arcs * (1 + total domain size).
C10_PushOnlyAfterShrink ==
    (pc = "propagate" /\ worklist'.queue_members \ worklist.queue_members # {})
        => \E v \in DOMAIN solution :
              solution'[v] \subseteq solution[v] /\ solution'[v] # solution[v]

C10_RevisionsBounded ==
    strategy = "PropagationOnly" =>
        TotalRevisions <= Cardinality(Arcs(constraints)) * (1 + TotalSize(initial))

C10_PropagateTerminates ==
    [](C10_RevisionsBounded) /\ [][C10_PushOnlyAfterShrink]_vars

\* a propagation that returned after revising some arc a second time
C10_Witness ==
    /\ PropagateReturnedSome
    /\ strategy = "PropagationOnly"
    /\ TotalRevisions > Cardinality(Arcs(constraints))

(***************************************************************************)
(* Constraint::revise called on its own: one constraint, a solution whose  *)
(* domains are all populated, and a target variable of that solution,      *)
(* which may or may not be one of the constraint's variables().            *)
(***************************************************************************)
\* a constraint together with the kinds of the variables of the solution
Template(cons, kinds) == [cons |-> cons, kinds |-> kinds]

ReviseTemplates ==
    {Template(<<NotEqualConstraint(0, 1)>>, <<"Int", "Int", "Int">>),
     Template(<<EqualConstraint(0, 1)>>, <<"Int", "Int", "Int">>),
     Template(<<AllDifferentConstraint(<<0, 1>>)>>, <<"Int", "Int", "Int">>),
     Template(<<AllDifferentConstraint(<<0, 1, 2>>)>>, <<"Int", "Int", "Int">>),
     Template(<<AbsoluteDifferenceNotEqualConstraint(0, 1, 1)>>, <<"Int", "Int", "Int">>),
     Template(<<SumOfConstraint(<<0, 1>>, 2)>>, <<"Int", "Int", "Int">>),
     Template(<<SumOfConstraint(<<0>>, 1)>>, <<"Int", "Int", "Int">>),
     Template(<<SumOfConstraint(<<0, 0>>, 1)>>, <<"Int", "Int", "Int">>),
     Template(<<BooleanOrConstraint(<<0, 1>>)>>, <<"Bool", "Bool", "Bool">>),
     Template(<<BooleanOrConstraint(<<0, 1, 2>>)>>, <<"Bool", "Bool", "Bool", "Bool">>),
     Template(<<ReifiedOrConstraint(2, <<0, 1>>)>>, <<"Bool", "Bool", "Bool", "Bool">>),
     Template(<<ReifiedEqualConstraint(0, 1, 2)>>, <<"Bool", "Int", "Int", "Int">>),
     Template(<<ReifiedMemberOfConstraint(2, <<0, 1>>, MemberTable)>>,
              <<"Int", "Int", "Bool", "Bool">>)}

InitRevise ==
    \E tp \in ReviseTemplates : \E p \in ProblemsOf(tp.cons, tp.kinds) :
        /\ constraints = p.cons
        /\ initial = p.doms
        /\ strategy = "None"
        /\ variable_heuristic = "SelectFirst"
        /\ value_heuristic = "Identity"
        /\ ordered = NoOrder
        /\ observed = NotObserved
        /\ intersected = NoIntersect
        /\ tie = "Any"
        /\ restart = NoRestarting
        /\ op = NoOp
        /\ pc = "revise"
        /\ solution = p.doms
        /\ worklist = WorkListNew
        /\ ret = "caller"
        /\ prop_result = "Pending"
        /\ stack = <<>>
        /\ result = Pending
        /\ stats = StatsDefault(p.cons)
        /\ run = 1
        /\ first = <<>>
        /\ last_rev = NoRev

\* constraint.revise(&target_var, &solution) for some variable of the solution
ReviseCall ==
    /\ pc = "revise"
    /\ \E target_var \in DOMAIN solution :
          last_rev' = [target |-> target_var, constraint_id |-> 1, before |-> solution,
                       outcome |-> revise(constraints[1], target_var, solution),
                       pushed |-> FALSE]
    /\ pc' = "revised"
    /\ UNCHANGED <<constraints, initial, strategy, variable_heuristic, value_heuristic,
                   ordered, observed, intersected, tie, restart, op,
                   solution, worklist, ret, prop_result, stack, result, stats, run,
                   first>>

NextRevise == ReviseCall

SpecRevise == InitRevise /\ [][NextRevise]_vars

(***************************************************************************)
(* A WorkList used on its own: any sequence of push_back and pop_front,    *)
(* with any of the standard priorities.                                    *)
(***************************************************************************)
Priorities == {LOW, NORMAL, HIGH}
WorkListPairs == {<<1, 1>>, <<2, 1>>, <<1, 2>>}

InitWorkList ==
    /\ constraints = <<>>
    /\ initial = <<>>
    /\ strategy = "None"
    /\ variable_heuristic = "SelectFirst"
    /\ value_heuristic = "Identity"
    /\ ordered = NoOrder
    /\ observed = NotObserved
    /\ intersected = NoIntersect
    /\ tie = "Any"
    /\ restart = NoRestarting
    /\ op = NoOp
    /\ pc = "worklist"
    /\ solution = <<>>
    /\ worklist = WorkListNew
    /\ ret = "caller"
    /\ prop_result = "Pending"
    /\ stack = <<>>
    /\ result = Pending
    /\ stats = StatsDefault(<<>>)
    /\ run = 1
    /\ first = <<>>
    /\ last_rev = NoRev

\* worklist.push_back(priority, variable_id, constraint_id)
PushBack ==
    /\ pc = "worklist"
    /\ \E p \in Priorities, pair \in WorkListPairs :
          /\ worklist' = push_back(worklist, p, pair[1], pair[2])
          /\ op' = [kind |-> "push", item |-> WorkItem(p, pair[1], pair[2]),
                    before |-> worklist, returned |-> "nothing",
                    last_popped |-> op.last_popped]
    /\ UNCHANGED <<constraints, initial, strategy, variable_heuristic, value_heuristic,
                   ordered, observed, intersected, tie, restart, pc,
                   solution, ret, prop_result, stack, result, stats, run, first,
                   last_rev>>

\* worklist.pop_front() returning Some((variable_id, constraint_id))
PopFrontSome ==
    /\ pc = "worklist"
    /\ \E i \in PopChoices(worklist) :
          /\ worklist' = pop_front(worklist, i)
          /\ op' = [kind |-> "pop", item |-> worklist.queue[i], before |-> worklist,
                    returned |-> "Some", last_popped |-> worklist.queue[i]]
    /\ UNCHANGED <<constraints, initial, strategy, variable_heuristic, value_heuristic,
                   ordered, observed, intersected, tie, restart, pc,
                   solution, ret, prop_result, stack, result, stats, run, first,
                   last_rev>>

\* worklist.pop_front() returning None
PopFrontNone ==
    /\ pc = "worklist"
    /\ PopChoices(worklist) = {}
    /\ op' = [kind |-> "pop", item |-> NoItem, before |-> worklist,
              returned |-> "None", last_popped |-> op.last_popped]
    /\ UNCHANGED <<constraints, initial, strategy, variable_heuristic, value_heuristic,
                   ordered, observed, intersected, tie, restart, pc,
                   solution, worklist, ret, prop_result, stack, result, stats, run,
                   first, last_rev>>

NextWorkList ==
    \/ PushBack
    \/ PopFrontSome
    \/ PopFrontNone

SpecWorkList == InitWorkList /\ [][NextWorkList]_vars

\* the (variable, constraint) pair of a queued item
PairOf(item) == <<item.variable_id, item.constraint_id>>

(***************************************************************************)
(* Two runs of BacktrackingSearch::solve, with SelectFirstHeuristic and    *)
(* DeterministicIdentityValueHeuristic, on the same constraints and the    *)
(* same initial solution.                                                  *)
(***************************************************************************)
InitDeterministic ==
    \E p \in Problems, t \in {"Oldest", "Newest"} :
        /\ constraints = p.cons
        /\ initial = p.doms
        /\ strategy = "Backtracking"
        /\ variable_heuristic = "SelectFirst"
        /\ value_heuristic = "Deterministic"
        /\ ordered = NoOrder
        /\ observed = NotObserved
        /\ intersected = NoIntersect
        /\ tie = t
        /\ restart = NoRestarting
        /\ op = NoOp
        /\ pc = "start"
        /\ solution = p.doms
        /\ worklist = WorkListNew
        /\ ret = "solve"
        /\ prop_result = "Pending"
        /\ stack = <<>>
        /\ result = Pending
        /\ stats = StatsDefault(p.cons)
        /\ run = 1
        /\ first = <<>>
        /\ last_rev = NoRev

\* the caller keeps what the first solve returned and calls solve again with
\* the same arguments
SolveAgain ==
    /\ pc = "done"
    /\ run = 1
    /\ run' = 2
    /\ first' = [result |-> result, nodes_visited |-> stats.nodes_visited,
                 backtracks |-> stats.backtracks]
    /\ pc' = "start"
    /\ result' = Pending
    /\ solution' = initial
    /\ worklist' = WorkListNew
    /\ ret' = "solve"
    /\ prop_result' = "Pending"
    /\ stack' = <<>>
    /\ stats' = StatsDefault(constraints)
    /\ last_rev' = NoRev
    /\ UNCHANGED <<constraints, initial, strategy, variable_heuristic, value_heuristic,
                   ordered, observed, intersected, tie, restart, op>>

NextDeterministic ==
    \/ BacktrackingSolve
    \/ Revise
    \/ PropagateReturn
    \/ BacktrackingSolveReturn
    \/ SearchEnter
    \/ SearchGuess
    \/ SearchGuessReturn
    \/ SearchExhausted
    \/ SolveAgain

SpecDeterministic == InitDeterministic /\ [][NextDeterministic]_vars

\* C11: every call of RestartingSearch.solve, with an inner BacktrackingSearch
\* and NoRestartPolicy or RestartAfterNBacktracks, eventually returns.
C11_RestartingSolveReturns ==
    (restart.active /\ strategy = "Backtracking") ~> (pc = "returned")

\* C12: once a revise has returned an error during propagation, propagate
\* returns the error, the enclosing solve (BacktrackingSearch,
\* PropagationOnlySearch, RestartingSearch) returns it with no solution and no
\* stats, and no further revision or guess is made.
C12_ErrorReturned ==
    last_rev.outcome.kind = "Error" =>
        /\ prop_result = "Err"
        /\ pc \in {"propagated", "done", "returned"}
        /\ pc \in {"done", "returned"} => result = Err
        /\ pc = "returned" => restart.result = Err
        /\ (pc = "done" /\ restart.active) => restart.result = Pending

C12_NothingAfterError ==
    last_rev.outcome.kind = "Error" =>
        /\ TotalRevisions' = TotalRevisions
        /\ last_rev' = last_rev
        /\ pc' \in {"propagated", "done", "returned"}
        /\ restart'.active => restart'.history = restart.history

C12_ErrorsPropagate ==
    [](C12_ErrorReturned) /\ [][C12_NothingAfterError]_vars

\* a RestartingSearch that returned the error of a revision made for a guess
C12_Witness ==
    /\ pc = "returned"
    /\ restart.result = Err
    /\ last_rev.outcome.kind = "Error"
    /\ stats.nodes_visited >= 1

\* C13: for every built-in constraint, revise(t, s) with t not among the
\* constraint's variables() yields the Error outcome.
C13_ForeignTargetIsError ==
    (pc = "revised" /\ last_rev.target \notin Range(constraints[1].vars))
        => last_rev.outcome.kind = "Error"

\* C14: after any sequence of push_back and pop_front calls the worklist holds
\* at most one occurrence of any (variable, constraint) pair.
C14_NoDuplicatePairs ==
    \A i, j \in 1..Len(worklist.queue) :
        PairOf(worklist.queue[i]) = PairOf(worklist.queue[j]) => i = j

\* a push of a pair that was queued, among other queued pairs
C14_Witness ==
    /\ op.kind = "push"
    /\ PairOf(op.item) \in op.before.queue_members
    /\ Len(worklist.queue) >= 2

\* C15: pop_front returns a pair whose recorded priority is at least that of
\* every pair still queued, and returns None only when the worklist is empty.
C15_PopsGreatestPriority ==
    op.kind = "pop" =>
        /\ op.returned = "Some" =>
              \A i \in 1..Len(worklist.queue) :
                  worklist.queue[i].priority <= op.item.priority
        /\ op.returned = "None" <=> op.before.queue = <<>>

\* a pop that passed over an older item of lower priority
C15_Witness ==
    /\ op.kind = "pop"
    /\ op.returned = "Some"
    /\ op.before.queue[1] # op.item
    /\ op.before.queue[1].priority < op.item.priority

\* C16: push_back of a queued pair leaves the worklist as it was, the recorded
\* priority included; push_back of a pair that is not queued, such as one popped
\* before, enqueues it with the priority of that push.
C16_PushOfQueuedPairIsNoOp ==
    op.kind = "push" =>
        IF PairOf(op.item) \in op.before.queue_members
        THEN worklist = op.before
        ELSE /\ \E i \in 1..Len(worklist.queue) : worklist.queue[i] = op.item
             /\ \A i \in 1..Len(op.before.queue) :
                   \E j \in 1..Len(worklist.queue) :
                       worklist.queue[j] = op.before.queue[i]
             /\ Len(worklist.queue) = Len(op.before.queue) + 1

\* a pair popped, pushed again with another priority, and then pushed once more
\* with a third while it is queued
C16_Witness ==
    /\ op.kind = "push"
    /\ PairOf(op.item) = PairOf(op.last_popped)
    /\ \E i \in 1..Len(op.before.queue) :
          /\ PairOf(op.before.queue[i]) = PairOf(op.item)
          /\ op.before.queue[i].priority # op.item.priority
          /\ op.before.queue[i].priority # op.last_popped.priority

C18_ReturnsWhatInnerReturned ==
    (restart.active /\ pc = "returned" /\ restart.result.kind # "Err") =>
        /\ restart.result.kind = result.kind
        /\ restart.result.solution = result.solution
        /\ restart.result.kind = "None" => ~should_restart(restart.policy, stats)

C18_AttemptsAndReturn ==
    restart.active =>
        /\ initial' = initial
        /\ (pc = "start" /\ pc' = "propagate") => solution' = initial
        /\ (pc = "done" /\ result.kind = "Some") => pc' = "returned"
        /\ (pc = "done" /\ pc' = "start") =>
              (result.kind = "None" /\ should_restart(restart.policy, stats))

C18_RestartingIsTransparent ==
    [](C18_ReturnsWhatInnerReturned) /\ [][C18_AttemptsAndReturn]_vars

\* a solution found by a search that backtracked, returned although the policy
\* would have restarted
C18_Witness ==
    /\ restart.active
    /\ pc = "returned"
    /\ restart.result.kind = "Some"
    /\ stats.backtracks >= 1
    /\ should_restart(restart.policy, stats)

\* the sums, over the inner runs performed, of the counters of their stats
SumNodesVisited(h) == SumSeq([i \in 1..Len(h) |-> h[i].nodes_visited])
SumBacktracks(h) == SumSeq([i \in 1..Len(h) |-> h[i].backtracks])
SumConstraintRevisions(h, id) ==
    SumSeq([i \in 1..Len(h) |-> h[i].constraint_stats[id].revisions])
SumConstraintPrunings(h, id) ==
    SumSeq([i \in 1..Len(h) |-> h[i].constraint_stats[id].prunings])

\* C19: the stats RestartingSearch.solve returns are the sums of the stats of
\* the inner runs performed: nodes_visited, backtracks and every constraint's
\* revisions and prunings, each run counted once.
C19_ReturnedStatsAreSums ==
    (restart.active /\ restart.all_counted /\ pc = "returned"
        /\ restart.result.kind # "Err") =>
        LET h == restart.history
            st == restart.result.stats
        IN  /\ st.nodes_visited = SumNodesVisited(h)
            /\ st.backtracks = SumBacktracks(h)
            /\ \A id \in 1..Len(constraints) :
                  /\ st.constraint_stats[id].revisions = SumConstraintRevisions(h, id)
                  /\ st.constraint_stats[id].prunings = SumConstraintPrunings(h, id)

C19_EveryRunInHistory ==
    (restart.active /\ restart'.all_counted /\ pc = "done" /\ pc' # "done"
        /\ result.kind # "Err") =>
        restart'.history = Append(restart.history, stats)

C19_CumulativeStatsAreSums ==
    [](C19_ReturnedStatsAreSums) /\ [][C19_EveryRunInHistory]_vars

\* a return after two inner runs that both visited nodes and backtracked
C19_Witness ==
    /\ restart.active
    /\ restart.all_counted
    /\ pc = "returned"
    /\ restart.runs = 2
    /\ restart.history[1].backtracks >= 1
    /\ restart.history[2].backtracks >= 1
    /\ restart.history[1] # restart.history[2]

\* C20: RestartAfterNBacktracks with threshold N answers "restart" exactly when
\* the attempt's backtracks exceed N; at backtracks = N it does not restart.
C20_RestartsAboveThreshold ==
    (restart.active /\ pc = "done" /\ restart.policy.kind = "AfterN") =>
        (should_restart(restart.policy, stats)
            <=> stats.backtracks > restart.policy.max_backtracks)

\* some AllDifferent constraint of the problem has two variables whose initial
\* domains are the same singleton
HasFixedDuplicate(cons, doms) ==
    \E cid \in 1..Len(cons) :
        /\ cons[cid].type = "AllDifferent"
        /\ \E i, j \in 1..Len(cons[cid].vars) :
              /\ i # j
              /\ cons[cid].vars[i] # cons[cid].vars[j]
              /\ is_singleton(doms[cons[cid].vars[i]])
              /\ doms[cons[cid].vars[i]] = doms[cons[cid].vars[j]]

\* C21: for a problem in which two variables of one AllDifferent constraint
\* start with the same singleton value, BacktrackingSearch.solve returns
\* (None, stats) with stats.backtracks >= 1.
C21_FixedDuplicateBacktracks ==
    (pc = "done" /\ strategy = "Backtracking" /\ HasFixedDuplicate(constraints, initial))
        => (result = None /\ stats.backtracks >= 1)

\* the assignment that gives t the value v and every other variable the
\* value its domain holds
AssignWith(doms, t, v) ==
    [w \in DOMAIN doms |-> IF w = t THEN v ELSE get_singleton_value(doms[w])]

\* t is the one variable of c that still has room: every other variable of c
\* is a singleton and t is not
OnlyRoomIs(c, doms, t) ==
    /\ t \in Range(c.vars)
    /\ ~is_singleton(doms[t])
    /\ \A w \in Range(c.vars) \ {t} : is_singleton(doms[w])

\* the values of D(t) that violate c together with the others' values
ViolatingValues(c, doms, t) ==
    {v \in doms[t] : ~Holds(c, AssignWith(doms, t, v))}

\* C22: for each built-in constraint, when all of its variables but one are
\* singletons and the remaining variable's domain holds a value that violates
\* the constraint together with the others, revising the remaining variable
\* returns Pruned with a strictly smaller domain for it.
C22_ViolationIsPruned ==
    (pc = "revised"
        /\ OnlyRoomIs(constraints[1], last_rev.before, last_rev.target)
        /\ ViolatingValues(constraints[1], last_rev.before, last_rev.target) # {})
        => /\ last_rev.outcome.kind = "Pruned"
           /\ len(last_rev.outcome.doms[last_rev.target])
                < len(last_rev.before[last_rev.target])

\* every variable of c is a singleton and the values assigned satisfy c
SatisfiedBy(c, doms) ==
    /\ \A w \in Range(c.vars) : is_singleton(doms[w])
    /\ Holds(c, [w \in DOMAIN doms |-> get_singleton_value(doms[w])])

\* C23: for each built-in constraint, when every variable of the constraint is
\* a singleton and the assigned values satisfy the constraint, revise on any of
\* the constraint's variables returns Unchanged.
C23_SatisfiedIsUnchanged ==
    (pc = "revised"
        /\ last_rev.target \in Range(constraints[1].vars)
        /\ SatisfiedBy(constraints[1], last_rev.before))
        => last_rev.outcome.kind = "Unchanged"

\* the singleton values of the variables of c other than t
FixedByOthers(c, doms, t) ==
    {get_singleton_value(doms[w]) :
        w \in {x \in Range(c.vars) \ {t} : is_singleton(doms[x])}}

\* C24: AllDifferent.revise(t) removes from D(t) exactly the values that are
\* the singleton value of some other variable of the constraint, and returns
\* Unchanged when D(t) contains none of them.
C24_AllDifferentRemovesFixed ==
    (pc = "revised" /\ constraints[1].type = "AllDifferent"
        /\ last_rev.target \in Range(constraints[1].vars)) =>
        LET t == last_rev.target
            s == last_rev.before
            fixed == FixedByOthers(constraints[1], s, t)
        IN  IF s[t] \cap fixed = {}
            THEN last_rev.outcome.kind = "Unchanged"
            ELSE /\ last_rev.outcome.kind = "Pruned"
                 /\ last_rev.outcome.doms = update(s, t, s[t] \ fixed)

\* a revision that removed the values of two other variables and kept a third
\* value
C24_Witness ==
    /\ pc = "revised"
    /\ constraints[1].type = "AllDifferent"
    /\ last_rev.outcome.kind = "Pruned"
    /\ len(last_rev.before[last_rev.target]) = 3
    /\ len(last_rev.outcome.doms[last_rev.target]) = 1

(***************************************************************************)
(* The end-to-end scenarios: a solve, by either strategy, of a problem     *)
(* built from NotEqual constraints.                                        *)
(***************************************************************************)
ScenarioProblems ==
    ProblemsOf(<<NotEqualConstraint(0, 1)>>, <<"Int", "Int">>)
    \cup ProblemsOf(<<NotEqualConstraint(0, 1), NotEqualConstraint(1, 2),
                      NotEqualConstraint(0, 2)>>, <<"Bool", "Bool", "Bool">>)

InitScenario ==
    \E p \in ScenarioProblems, st \in Strategies :
        /\ constraints = p.cons
        /\ initial = p.doms
        /\ strategy = st
        /\ variable_heuristic = "SelectFirst"
        /\ value_heuristic = "Identity"
        /\ ordered = NoOrder
        /\ observed = NotObserved
        /\ intersected = NoIntersect
        /\ tie = "Any"
        /\ restart = NoRestarting
        /\ op = NoOp
        /\ pc = "start"
        /\ solution = p.doms
        /\ worklist = WorkListNew
        /\ ret = "solve"
        /\ prop_result = "Pending"
        /\ stack = <<>>
        /\ result = Pending
        /\ stats = StatsDefault(p.cons)
        /\ run = 1
        /\ first = <<>>
        /\ last_rev = NoRev

NextScenario ==
    \/ BacktrackingSolve
    \/ PropagationOnlySolve
    \/ Revise
    \/ PropagateReturn
    \/ BacktrackingSolveReturn
    \/ PropagationOnlySolveReturn
    \/ SearchEnter
    \/ SearchGuess
    \/ SearchGuessReturn
    \/ SearchExhausted

SpecScenario == InitScenario /\ [][NextScenario]_vars

\* the variable of the binary constraint c that is not t
TheOther(c, t) == CHOOSE w \in Range(c.vars) : w # t

\* C25: NotEqual(a, b).revise(t): if the other variable's domain is a singleton
\* {v} and v is in D(t), the result is Pruned with D(t) minus {v}; in every
\* other case the result is Unchanged.  In particular, solving D(A) = {1, 2},
\* D(B) = {1}, A != B ends with D(A) = {2}, D(B) = {1}.
C25_NotEqualRevise ==
    (last_rev.constraint_id # 0
        /\ constraints[last_rev.constraint_id].type = "NotEqual") =>
        LET t == last_rev.target
            s == last_rev.before
            other == s[TheOther(constraints[last_rev.constraint_id], t)]
        IN  IF is_singleton(other) /\ other \subseteq s[t]
            THEN last_rev.outcome = Pruned(update(s, t, s[t] \ other))
            ELSE last_rev.outcome = Unchanged

C25_Pinpointing ==
    (pc = "done" /\ constraints = <<NotEqualConstraint(0, 1)>>
        /\ initial = (0 :> {1, 2} @@ 1 :> {1}))
        => result = Some(0 :> {2} @@ 1 :> {1})

C25_NotEqualPinpoints == C25_NotEqualRevise /\ C25_Pinpointing

\* the solve of the scenario has returned, after the one pruning it takes
C25_Witness ==
    /\ pc = "done"
    /\ strategy = "Backtracking"
    /\ constraints = <<NotEqualConstraint(0, 1)>>
    /\ initial = (0 :> {1, 2} @@ 1 :> {1})
    /\ result.kind = "Some"
    /\ stats.constraint_stats[1].prunings = 1

\* the sums of the least and of the greatest values of the domains of a list
\* of term occurrences
SumOfMins(doms, ts) == SumSeq([i \in 1..Len(ts) |-> get_min_value(doms[ts[i]])])
SumOfMaxs(doms, ts) == SumSeq([i \in 1..Len(ts) |-> get_max_value(doms[ts[i]])])

\* the values of d within [lo, hi]
Within(d, lo, hi) == {v \in d : lo <= v /\ v <= hi}

\* the outcome that keeps `kept` of the domain of t
KeepsExactly(outcome, s, t, kept) ==
    IF kept = s[t] THEN outcome = Unchanged
    ELSE outcome = Pruned(update(s, t, kept))

\* C26: SumOf.revise performs bounds reasoning: with target = sum s, D(s)
\* keeps exactly its values within [sum of min(t_i), sum of max(t_i)]; with
\* target = term t_i, D(t_i) keeps exactly its values within
\* [min(s) - sum over j # i of max(t_j), max(s) - sum over j # i of min(t_j)],
\* where j ranges over every other term occurrence; Unchanged when no value
\* lies outside the interval.
C26_SumOfBounds ==
    (pc = "revised" /\ constraints[1].type = "SumOf"
        /\ last_rev.target \in Range(constraints[1].vars)) =>
        LET t == last_rev.target
            s == last_rev.before
            terms == SumOfTerms(constraints[1])
            sum == SumOfSum(constraints[1])
        IN  IF t = sum
            THEN KeepsExactly(last_rev.outcome, s, t,
                     Within(s[t], SumOfMins(s, terms), SumOfMaxs(s, terms)))
            ELSE \A i \in 1..Len(terms) :
                    terms[i] = t =>
                        KeepsExactly(last_rev.outcome, s, t,
                            Within(s[t],
                                get_min_value(s[sum]) - SumOfMaxs(s, RemoveAt(terms, i)),
                                get_max_value(s[sum]) - SumOfMins(s, RemoveAt(terms, i))))

\* every variable of c but r is a singleton false, and r is not a singleton
LastHope(c, doms, r) ==
    /\ r \in Range(c.vars)
    /\ ~is_singleton(doms[r])
    /\ \A w \in Range(c.vars) \ {r} : doms[w] = {BoolFalse}

\* C27: BooleanOr.revise: when every variable of the constraint except one is
\* a singleton false and the remaining variable is not yet a singleton, that
\* remaining variable's domain is restricted to {true}.
C27_BooleanOrForcesLast ==
    (pc = "revised" /\ constraints[1].type = "BooleanOr") =>
        \A r \in Range(constraints[1].vars) :
            LastHope(constraints[1], last_rev.before, r) =>
                last_rev.outcome = Pruned(update(last_rev.before, r, {BoolTrue}))

\* a revision of a three-variable BooleanOr, called for a variable that is
\* false, that has forced another variable to true
C27_Witness ==
    /\ pc = "revised"
    /\ constraints[1].type = "BooleanOr"
    /\ Len(constraints[1].vars) = 3
    /\ last_rev.before[last_rev.target] = {BoolFalse}
    /\ \E r \in Range(constraints[1].vars) \ {last_rev.target} :
          /\ LastHope(constraints[1], last_rev.before, r)
          /\ last_rev.outcome.kind = "Pruned"
          /\ last_rev.outcome.doms[r] = {BoolTrue}

\* the solution a revision leaves: the new one if it pruned, the old one if not
After(rev) == IF rev.outcome.kind = "Pruned" THEN rev.outcome.doms ELSE rev.before

\* C28: ReifiedOr(B, b_1..b_k) revision enforces: if any b_i is singleton true
\* then D(B) is restricted to {true}; if every b_i is singleton false then D(B)
\* is restricted to {false}; if B is singleton false then every D(b_i) is
\* restricted to {false}.
C28_ReifiedOrRules ==
    (pc = "revised" /\ constraints[1].type = "ReifiedOr") =>
        LET b_in == ReifiedOrBIn(constraints[1])
            B == ReifiedOrBOut(constraints[1])
            s == last_rev.before
            s1 == After(last_rev)
        IN  /\ last_rev.outcome.kind # "Error"
            /\ (\E i \in 1..Len(b_in) : s[b_in[i]] = {BoolTrue})
                  => s1[B] = s[B] \cap {BoolTrue}
            /\ (\A i \in 1..Len(b_in) : s[b_in[i]] = {BoolFalse})
                  => s1[B] = s[B] \cap {BoolFalse}
            /\ s[B] = {BoolFalse}
                  => \A i \in 1..Len(b_in) : s1[b_in[i]] = s[b_in[i]] \cap {BoolFalse}

\* a revision that found the output false and one input true, and restricted
\* both the output and the inputs
C28_Witness ==
    /\ pc = "revised"
    /\ constraints[1].type = "ReifiedOr"
    /\ last_rev.before[ReifiedOrBOut(constraints[1])] = {BoolFalse}
    /\ \E i \in 1..Len(ReifiedOrBIn(constraints[1])) :
          last_rev.before[ReifiedOrBIn(constraints[1])[i]] = {BoolTrue}
    /\ \E i \in 1..Len(ReifiedOrBIn(constraints[1])) :
          /\ last_rev.before[ReifiedOrBIn(constraints[1])[i]] = BoolValues
          /\ After(last_rev)[ReifiedOrBIn(constraints[1])[i]] = {BoolFalse}
    /\ After(last_rev)[ReifiedOrBOut(constraints[1])] = {}

\* the rows of the table whose every entry is in the domain of its variable
SurvivingRows(table, vs, doms) ==
    {row \in table : \A i \in 1..Len(vs) : row[i] \in doms[vs[i]]}

\* C29: ReifiedMemberOf(B, v_1..v_k, table) revision: when B is singleton
\* true, each D(v_i) is restricted to the values appearing in column i of the
\* surviving rows, the table rows whose every entry is in the current domain
\* of the corresponding variable; when no table row is compatible with the
\* current domains, D(B) is restricted to {false}.
C29_MemberOfProjectsSurvivingRows ==
    (pc = "revised" /\ constraints[1].type = "ReifiedMemberOf") =>
        LET vs == Front(constraints[1].vars)
            b == Last(constraints[1].vars)
            s == last_rev.before
            s1 == After(last_rev)
            rows == SurvivingRows(constraints[1].data_set, vs, s)
        IN  /\ s[b] = {BoolTrue} =>
                  \A i \in 1..Len(vs) :
                      s1[vs[i]] = {val \in s[vs[i]] : \E row \in rows : row[i] = val}
            /\ rows = {} => s1[b] = s[b] \cap {BoolFalse}

(***************************************************************************)
(* ValueOrderingHeuristic::order_values called on its own: a solution      *)
(* whose domains are all populated and one of its variables.               *)
(***************************************************************************)
InitOrderValues ==
    \E d \in InitialSolutions(<<"Int", "Int", "Int">>) :
        /\ constraints = <<>>
        /\ initial = d
        /\ strategy = "None"
        /\ variable_heuristic = "SelectFirst"
        /\ value_heuristic = "PreferUsed"
        /\ ordered = NoOrder
        /\ observed = NotObserved
        /\ intersected = NoIntersect
        /\ tie = "Any"
        /\ restart = NoRestarting
        /\ op = NoOp
        /\ pc = "order"
        /\ solution = d
        /\ worklist = WorkListNew
        /\ ret = "caller"
        /\ prop_result = "Pending"
        /\ stack = <<>>
        /\ result = Pending
        /\ stats = StatsDefault(<<>>)
        /\ run = 1
        /\ first = <<>>
        /\ last_rev = NoRev

\* heuristic.order_values(variable_id, &solution), collected
OrderValuesCall ==
    /\ pc = "order"
    /\ \E variable_id \in DOMAIN solution :
          ordered' = [variable_id |-> variable_id,
                      values |-> PreferUsedOrderValues(variable_id, solution)]
    /\ pc' = "ordered"
    /\ UNCHANGED <<constraints, initial, strategy, variable_heuristic, value_heuristic,
                   observed, intersected, tie, restart, op, solution, worklist, ret,
                   prop_result, stack, result, stats, run, first, last_rev>>

NextOrderValues == OrderValuesCall

SpecOrderValues == InitOrderValues /\ [][NextOrderValues]_vars

\* s is sorted ascending, with no value twice
Ascending(s) == \A i, j \in 1..Len(s) : i < j => s[i] < s[j]

\* C30: PreferUsedValuesHeuristic.order_values returns every value of the
\* variable's domain exactly once, with all values that are the singleton
\* value of some other variable placed before all remaining values, and each of
\* the two sections sorted ascending.
C30_PreferUsedOrder ==
    pc = "ordered" =>
        LET v == ordered.variable_id
            out == ordered.values
            used == {get_singleton_value(solution[w]) :
                        w \in {x \in DOMAIN solution \ {v} : is_singleton(solution[x])}}
        IN  /\ Range(out) = solution[v]
            /\ Len(out) = len(solution[v])
            /\ \E k \in 0..Len(out) :
                  /\ \A i \in 1..Len(out) : (out[i] \in used) <=> i <= k
                  /\ Ascending(SubSeq(out, 1, k))
                  /\ Ascending(SubSeq(out, k + 1, Len(out)))

(***************************************************************************)
(* BacktrackingSearch::solve with SelectFirstHeuristic and                 *)
(* PreferUsedValuesHeuristic.                                              *)
(***************************************************************************)
PreferUsedProblems ==
    ProblemsOf(<<NotEqualConstraint(0, 1)>>, <<"Int", "Int", "Int">>)
    \cup ProblemsOf(<<NotEqualConstraint(0, 1), NotEqualConstraint(1, 2),
                      NotEqualConstraint(0, 2)>>, <<"Bool", "Bool", "Bool">>)

InitPreferUsed ==
    \E p \in PreferUsedProblems :
        /\ constraints = p.cons
        /\ initial = p.doms
        /\ strategy = "Backtracking"
        /\ variable_heuristic = "SelectFirst"
        /\ value_heuristic = "PreferUsed"
        /\ ordered = NoOrder
        /\ observed = NotObserved
        /\ intersected = NoIntersect
        /\ tie = "Any"
        /\ restart = NoRestarting
        /\ op = NoOp
        /\ pc = "start"
        /\ solution = p.doms
        /\ worklist = WorkListNew
        /\ ret = "solve"
        /\ prop_result = "Pending"
        /\ stack = <<>>
        /\ result = Pending
        /\ stats = StatsDefault(p.cons)
        /\ run = 1
        /\ first = <<>>
        /\ last_rev = NoRev

NextPreferUsed ==
    \/ BacktrackingSolve
    \/ Revise
    \/ PropagateReturn
    \/ BacktrackingSolveReturn
    \/ SearchEnter
    \/ SearchGuess
    \/ SearchGuessReturn
    \/ SearchExhausted

SpecPreferUsed == InitPreferUsed /\ [][NextPreferUsed]_vars

(***************************************************************************)
(* The three DomainRepresentations used on their own: intersect called on  *)
(* two domains, each way round.  StandardValue::Int holds an i64, modelled *)
(* as a two's complement integer of IntBits bits; the values of the        *)
(* domains are taken from the top of its range.                            *)
(***************************************************************************)
IntBits == 4
IntMax == 2 ^ (IntBits - 1) - 1
IntMin == -(2 ^ (IntBits - 1))
TopValues == (IntMax - 3)..IntMax

HashSetDomain(values) == [rep |-> "HashSet", values |-> values, min |-> 0, max |-> 0]
OrderedDomain(values) == [rep |-> "Ordered", values |-> values, min |-> 0, max |-> 0]
\* what RangeDomain::new returns when min <= max
RangeDomain(min, max) == [rep |-> "Range", values |-> {}, min |-> min, max |-> max]

\* the domains a caller can build
DomainsBuilt ==
    {HashSetDomain(s) : s \in SUBSET TopValues}
    \cup {OrderedDomain(s) : s \in SUBSET TopValues}
    \cup {RangeDomain(e[1], e[2]) : e \in {x \in TopValues \X TopValues : x[1] <= x[2]}}

\* the values a domain contains
Contained(d) == IF d.rep = "Range" THEN d.min..d.max ELSE d.values

\* what a call returns: a domain, a panic, or nothing at all
Gives(d) == [kind |-> "Ok", domain |-> d]
Panics == [kind |-> "Panic", domain |-> <<>>]
Diverges == [kind |-> "Diverges", domain |-> <<>>]

\* other.iter().cloned().collect().  RangeDomainIterator::next yields current
\* and steps it to its successor, a + 1, before the next comparison with max:
\* from i64::MAX the addition overflows, which panics where overflow checks
\* are compiled in and wraps to i64::MIN elsewhere, and after wrapping current
\* is never greater than max = i64::MAX, so the iteration does not end.
Collected(other, overflow_checks) ==
    IF other.rep # "Range" THEN Gives(other.values)
    ELSE IF other.max = IntMax
    THEN (IF overflow_checks THEN Panics ELSE Diverges)
    ELSE Gives(other.min..other.max)

\* HashSetDomain::intersect
HashSetDomainIntersect(self, other, overflow_checks) ==
    LET other_values == Collected(other, overflow_checks)
    IN  IF other_values.kind # "Ok" THEN other_values
        ELSE Gives(HashSetDomain(intersection(self.values, other_values.domain)))

\* OrderedDomain::intersect
OrderedDomainIntersect(self, other, overflow_checks) ==
    LET other_values == Collected(other, overflow_checks)
    IN  IF other_values.kind # "Ok" THEN other_values
        ELSE Gives(OrderedDomain({v \in self.values : v \in other_values.domain}))

\* RangeDomain::intersect: two ranges meet in a range or in the empty discrete
\* domain; with another representation the range is walked from min, leaving
\* the loop at max before any successor of max is taken
RangeDomainIntersect(self, other, overflow_checks) ==
    IF other.rep = "Range"
    THEN LET new_min == IF self.min >= other.min THEN self.min ELSE other.min
             new_max == IF self.max <= other.max THEN self.max ELSE other.max
         IN  IF new_min > new_max THEN Gives(HashSetDomain({}))
             ELSE Gives(RangeDomain(new_min, new_max))
    ELSE LET other_values == Collected(other, overflow_checks)
         IN  Gives(HashSetDomain({current \in self.min..self.max :
                                         current \in other_values.domain}))

\* self.intersect(other), dispatched on the representation of self
DomainIntersect(self, other, overflow_checks) ==
    IF self.rep = "HashSet" THEN HashSetDomainIntersect(self, other, overflow_checks)
    ELSE IF self.rep = "Ordered" THEN OrderedDomainIntersect(self, other, overflow_checks)
    ELSE RangeDomainIntersect(self, other, overflow_checks)

InitIntersect ==
    \E a \in DomainsBuilt, b \in DomainsBuilt :
        /\ constraints = <<>>
        /\ initial = <<>>
        /\ strategy = "None"
        /\ variable_heuristic = "SelectFirst"
        /\ value_heuristic = "Identity"
        /\ ordered = NoOrder
        /\ observed = NotObserved
        /\ intersected = [a |-> a, b |-> b, ab |-> <<>>, ba |-> <<>>]
        /\ tie = "Any"
        /\ restart = NoRestarting
        /\ op = NoOp
        /\ pc = "intersect"
        /\ solution = <<>>
        /\ worklist = WorkListNew
        /\ ret = "caller"
        /\ prop_result = "Pending"
        /\ stack = <<>>
        /\ result = Pending
        /\ stats = StatsDefault(<<>>)
        /\ run = 1
        /\ first = <<>>
        /\ last_rev = NoRev

\* a.intersect(b) and b.intersect(a), in a build with or without overflow
\* checks
IntersectCalls ==
    /\ pc = "intersect"
    /\ \E overflow_checks \in BOOLEAN :
          intersected' =
              [intersected EXCEPT
                  !.ab = DomainIntersect(intersected.a, intersected.b, overflow_checks),
                  !.ba = DomainIntersect(intersected.b, intersected.a, overflow_checks)]
    /\ pc' = "intersected"
    /\ UNCHANGED <<constraints, initial, strategy, variable_heuristic, value_heuristic,
                   ordered, observed, tie, restart, op, solution, worklist, ret,
                   prop_result, stack, result, stats, run, first, last_rev>>

NextIntersect == IntersectCalls

SpecIntersect == InitIntersect /\ [][NextIntersect]_vars

\* C31: intersect is symmetric across representations: for any two domains A
\* and B of any built-in representation, A.intersect(B) and B.intersect(A)
\* contain exactly the same values, namely the values contained in both A and
\* B.
C31_IntersectIsSymmetric ==
    pc = "intersected" =>
        /\ intersected.ab.kind = "Ok"
        /\ intersected.ba.kind = "Ok"
        /\ Contained(intersected.ab.domain)
             = Contained(intersected.a) \cap Contained(intersected.b)
        /\ Contained(intersected.ba.domain)
             = Contained(intersected.a) \cap Contained(intersected.b)

\* the step is one iteration of the loop of propagate
RevisionStep == pc = "propagate" /\ stats' # stats

\* the variables other than the target whose domain the revision just made
\* returned smaller
ShrunkOthers(rev) ==
    IF rev.outcome.kind # "Pruned" THEN {}
    ELSE {w \in DOMAIN rev.before :
            w # rev.target /\ len(rev.outcome.doms[w]) < len(rev.before[w])}

\* C32: when a revision of (t, c) returns a solution in which a variable other
\* than t has a smaller domain, the engine observes it: the shrunken domain is
\* kept in the propagation's current solution, an emptied domain makes
\* propagate return None, and this holds even if D(t) itself did not shrink.
C32_OtherVariablesObserved ==
    [][RevisionStep =>
        \A w \in ShrunkOthers(last_rev') :
            IF \E x \in DOMAIN solution : last_rev'.outcome.doms[x] = {}
            THEN pc' = "propagated" /\ prop_result' = "None"
            ELSE solution'[w] = last_rev'.outcome.doms[w]]_vars

\* the arcs (v', c') with c' mentioning v, v' a variable of c' and v' # v
ArcsToRevisit(cons, v) ==
    {a \in Arcs(cons) : v \in Range(cons[a[2]].vars) /\ a[1] # v}

\* the (variable, constraint) pairs queued in the worklist
Queued(wl) == {PairOf(wl.queue[i]) : i \in 1..Len(wl.queue)}

\* the variables whose domain the step made strictly smaller and left populated
ShrunkBy(before, after) ==
    {v \in DOMAIN before : len(after[v]) < len(before[v]) /\ after[v] # {}}

\* C33: whenever a revision strictly shrinks the domain of a variable v to a
\* non-empty domain, then before the next pop every arc (v', c') such that c'
\* mentions v, v' is in vars(c') and v' != v is present in the worklist.
C33_NeighboursRequeued ==
    [][(RevisionStep /\ pc' = "propagate") =>
        \A v \in ShrunkBy(solution, solution') :
            ArcsToRevisit(constraints, v) \subseteq Queued(worklist')]_vars

\* the same of the target of the revision alone
C33_TargetNeighboursRequeued ==
    [][(RevisionStep /\ pc' = "propagate") =>
        \A v \in ShrunkBy(solution, solution') \cap {last_rev'.target} :
            ArcsToRevisit(constraints, v) \subseteq Queued(worklist')]_vars

(***************************************************************************)
(* A solve, by either strategy, watched by an observer who notes which     *)
(* arcs each propagate revises and how many guesses the search makes.      *)
(***************************************************************************)
ObservedTemplates ==
    {Template(<<NotEqualConstraint(0, 1), AbsoluteDifferenceNotEqualConstraint(0, 1, 2)>>,
              <<"Int", "Int">>),
     Template(<<SumOfConstraint(<<0, 0>>, 1)>>, <<"Int", "Int">>),
     Template(<<AllDifferentConstraint(<<0, 1, 2>>)>>, <<"Bool", "Bool", "Bool">>),
     Template(<<NotEqualConstraint(0, 1), NotEqualConstraint(1, 2),
                NotEqualConstraint(0, 2)>>, <<"Bool", "Bool", "Bool">>),
     Template(<<NotEqualConstraint(0, 2), ReifiedOrConstraint(3, <<1, 2>>)>>,
              <<"Bool", "Bool", "Bool", "Bool">>)}

\* problems whose propagation leaves subtrees without a solution to the
\* search: four variables that must all differ, each with the same two or
\* more values, and three variables that must differ with two values between
\* them once variable 0 has taken the value 1
PigeonholeProblems ==
    {[cons |-> <<AllDifferentConstraint(<<0, 1, 2, 3>>)>>, doms |-> [v \in 0..3 |-> d]] :
        d \in {e \in IntDomains : len(e) > 1}}
    \cup {[cons |-> <<NotEqualConstraint(0, 1), AllDifferentConstraint(<<1, 2, 3>>)>>,
           doms |-> [v \in 0..3 |-> IF v = 0 THEN {1, 2}
                                    ELSE IF v = 1 THEN {1, 2, 3} ELSE {2, 3}]]}

\* the start of the observed solve of problem p by strategy st
ObservedStart(p, st) ==
    /\ constraints = p.cons
    /\ initial = p.doms
    /\ strategy = st
    /\ variable_heuristic = "SelectFirst"
    /\ value_heuristic = "Identity"
    /\ ordered = NoOrder
    /\ observed = Observing
    /\ intersected = NoIntersect
    /\ tie = "Any"
    /\ restart = NoRestarting
    /\ op = NoOp
    /\ pc = "start"
    /\ solution = p.doms
    /\ worklist = WorkListNew
    /\ ret = "solve"
    /\ prop_result = "Pending"
    /\ stack = <<>>
    /\ result = Pending
    /\ stats = StatsDefault(p.cons)
    /\ run = 1
    /\ first = <<>>
    /\ last_rev = NoRev

InitObserved ==
    \E st \in Strategies :
        \/ \E tp \in ObservedTemplates :
              \E p \in ProblemsOf(tp.cons, tp.kinds) : ObservedStart(p, st)
        \/ \E p \in PigeonholeProblems : ObservedStart(p, st)

NextObserved ==
    \/ BacktrackingSolve
    \/ PropagationOnlySolve
    \/ Revise
    \/ PropagateReturn
    \/ BacktrackingSolveReturn
    \/ PropagationOnlySolveReturn
    \/ SearchEnter
    \/ SearchGuess
    \/ SearchGuessReturn
    \/ SearchExhausted

SpecObserved == InitObserved /\ [][NextObserved]_vars

\* C34: in every propagate invocation that returns Some, every arc (v, c)
\* with v in vars(c) has been revised at least once: the worklist is seeded
\* with all arcs and propagate returns Some only once the worklist is empty.
C34_EveryArcRevised ==
    PropagateReturnedSome =>
        /\ worklist.queue = <<>>
        /\ Arcs(constraints) \subseteq observed.revised

\* a propagate called for a guess has returned Some, having revised one arc of
\* several constraints more than once
C34_Witness ==
    /\ PropagateReturnedSome
    /\ ret = "search"
    /\ Len(constraints) > 1
    /\ TotalRevisions > Cardinality(Arcs(constraints)) * (1 + observed.guesses)

\* propagate run to its end with the worklist popped in the order of pushing,
\* one of the orders a heap of equal priorities allows
RECURSIVE PropagateInOrder(_, _, _)
PropagateInOrder(cons, sol, wl) ==
    IF wl.queue = <<>> THEN Some(sol)
    ELSE LET it == PropagateIteration(cons, sol, wl, 1)
         IN  IF it.kind = "Loop" THEN PropagateInOrder(cons, it.solution, it.worklist)
             ELSE IF it.kind = "None" THEN None
             ELSE Err

\* the constraints listed in another order
Reordered(cons, f) == [i \in 1..Len(cons) |-> cons[f[i]]]

\* what the propagate that has just returned returned
PropagateOutcome ==
    IF prop_result = "Some" THEN Some(solution)
    ELSE IF prop_result = "None" THEN None
    ELSE Err

\* C35: confluence of propagation: for a fixed set of constraints and initial
\* solution, the outcome of propagate (None versus Some, and every domain of
\* the returned solution) is the same whichever order equal-priority worklist
\* items are popped in and whichever order the constraints are listed in.
C35_PropagationIsConfluent ==
    (pc = "propagated" /\ ret = "solve" /\ run = 1) =>
        \A f \in Permutations(1..Len(constraints)) :
            PropagateOutcome
              = PropagateInOrder(Reordered(constraints, f), initial,
                                 Seed(Reordered(constraints, f)))

\* the step is a guess: the value loop of the top frame calls propagate
GuessStep == pc = "loop" /\ pc' = "propagate"

\* the guess differs from the solution of the frame only in the domain of the
\* branching variable, a singleton
C36_ChildOfParent ==
    GuessStep =>
        LET frame == stack[Len(stack)]
        IN  /\ DOMAIN solution' = DOMAIN frame.solution
            /\ is_singleton(solution'[frame.var_to_branch])
            /\ \A w \in DOMAIN frame.solution :
                  w # frame.var_to_branch => solution'[w] = frame.solution[w]

\* a frame is pushed with the solution search was called with, and as long
\* as it is on the stack no step changes its solution or its variable
C36_ParentKept ==
    /\ Len(stack') > Len(stack) => Last(stack').solution = solution
    /\ \A i \in 1..Len(stack) :
          i <= Len(stack') =>
              /\ stack'[i].solution = stack[i].solution
              /\ stack'[i].var_to_branch = stack[i].var_to_branch

\* the solution search returns is the one the propagate of the last guess
\* returned
C36_ReturnsLastChild ==
    (stack # <<>> /\ result' # result /\ result'.kind = "Some") =>
        result'.solution = solution

\* C36: backtracking needs no rollback: every guess for a branching variable
\* v is built from the same parent solution, the child differs from the
\* parent only in D(v) being the singleton {val}, and prunings made while
\* exploring a failed value are not visible when the next value is tried or in
\* the solution finally returned.
C36_NoRollback ==
    [][C36_ChildOfParent /\ C36_ParentKept /\ C36_ReturnsLastChild]_vars

\* a value is being tried after another value of the same variable has
\* failed, the propagate of the failed guess having pruned a domain
C36_Witness ==
    /\ pc = "propagate"
    /\ ret = "search"
    /\ worklist = Seed(constraints)
    /\ stats.backtracks > 0
    /\ \E cid \in 1..Len(constraints) : stats.constraint_stats[cid].prunings > 0
    /\ LET frame == stack[Len(stack)]
       IN  /\ len(frame.values) + 2 <= len(ValuesToTry(frame.var_to_branch, frame.solution))
           /\ solution = Guess(frame.solution, frame.var_to_branch,
                               get_singleton_value(solution[frame.var_to_branch]))

\* the values in the order the value heuristic of the search yields them for
\* the variable of the frame, for the heuristics that fix the order
OrderOf(frame) ==
    IF value_heuristic = "PreferUsed"
    THEN PreferUsedOrderValues(frame.var_to_branch, frame.solution)
    ELSE SortedSeq(order_values(frame.var_to_branch, frame.solution))

\* a guess takes the first value of the order not tried yet, and leaves the
\* values after it to be tried
C37_NextInOrder ==
    (GuessStep /\ value_heuristic # "Identity") =>
        LET frame == stack[Len(stack)]
            order == OrderOf(frame)
            value == get_singleton_value(solution'[frame.var_to_branch])
        IN  \E k \in 1..Len(order) :
              /\ order[k] = value
              /\ frame.values = {order[j] : j \in k..Len(order)}
              /\ stack'[Len(stack)].values = {order[j] : j \in (k + 1)..Len(order)}

\* the search goes down before it goes on: a guess whose propagation has
\* succeeded is searched next, and only the innermost frame takes values
C37_DepthFirst ==
    /\ (pc = "propagated" /\ ret = "search" /\ prop_result = "Some") => pc' = "search"
    /\ \A i \in 1..(Len(stack) - 1) :
          i <= Len(stack') => stack'[i].values = stack[i].values

\* a complete solution reached by the search is returned at once, whatever
\* values are left in the frames
C37_FirstFound ==
    /\ (pc = "search" /\ is_complete(solution)) =>
          (result' = Some(solution) /\ pc' = "done" /\ stack' = <<>>)
    /\ result.kind = "Some" => ~GuessStep

\* C37: BacktrackingSearch tries the values of the branching variable
\* strictly in the order produced by the value heuristic, depth-first, and
\* returns the first solution found in that order: once a value's subtree
\* yields a solution no later value is tried.
C37_ValuesInOrder ==
    [][C37_NextInOrder /\ C37_DepthFirst /\ C37_FirstFound]_vars

\* the search is about to return a solution found after a failed value, with
\* later values of a frame left untried
C37_Witness ==
    /\ pc = "search"
    /\ is_complete(solution)
    /\ value_heuristic = "Deterministic"
    /\ stats.backtracks > 0
    /\ \E i \in 1..Len(stack) : stack[i].values # {}

(***************************************************************************)
(* BacktrackingSearch::solve followed to its end: the call runs on the     *)
(* caller's thread, so it goes on as long as it has a step to take.        *)
(***************************************************************************)
TerminationTemplates ==
    {Template(<<NotEqualConstraint(0, 1), AbsoluteDifferenceNotEqualConstraint(0, 1, 2)>>,
              <<"Int", "Int">>),
     Template(<<AllDifferentConstraint(<<0, 1, 2>>)>>, <<"Bool", "Bool", "Bool">>),
     Template(<<NotEqualConstraint(0, 1), NotEqualConstraint(1, 2),
                NotEqualConstraint(0, 2)>>, <<"Bool", "Bool", "Bool">>),
     Template(<<NotEqualConstraint(0, 2), ReifiedOrConstraint(3, <<1, 2>>)>>,
              <<"Bool", "Bool", "Bool", "Bool">>)}

InitTermination ==
    \E tp \in TerminationTemplates, vh \in {"SelectFirst", "Random"},
       t \in {"Oldest", "Newest"} :
      \E p \in ProblemsOf(tp.cons, tp.kinds) :
        /\ constraints = p.cons
        /\ initial = p.doms
        /\ strategy = "Backtracking"
        /\ variable_heuristic = vh
        /\ value_heuristic = "Identity"
        /\ ordered = NoOrder
        /\ observed = NotObserved
        /\ intersected = NoIntersect
        /\ tie = t
        /\ restart = NoRestarting
        /\ op = NoOp
        /\ pc = "start"
        /\ solution = p.doms
        /\ worklist = WorkListNew
        /\ ret = "solve"
        /\ prop_result = "Pending"
        /\ stack = <<>>
        /\ result = Pending
        /\ stats = StatsDefault(p.cons)
        /\ run = 1
        /\ first = <<>>
        /\ last_rev = NoRev

NextTermination ==
    \/ BacktrackingSolve
    \/ Revise
    \/ PropagateReturn
    \/ BacktrackingSolveReturn
    \/ SearchEnter
    \/ SearchGuess
    \/ SearchGuessReturn
    \/ SearchExhausted

SpecTermination ==
    InitTermination /\ [][NextTermination]_vars /\ WF_vars(NextTermination)

\* every frame of the search branches on a variable of its own, one with more
\* than one value in the solution of the frame, and every frame below the top
\* one has turned its variable into a singleton for the frame above it
C38_BranchesNarrow ==
    /\ Len(stack) <= Cardinality(DOMAIN initial)
    /\ \A i \in 1..Len(stack) :
          /\ len(stack[i].solution[stack[i].var_to_branch]) > 1
          /\ \A j \in (i + 1)..Len(stack) :
                /\ stack[j].var_to_branch # stack[i].var_to_branch
                /\ is_singleton(stack[j].solution[stack[i].var_to_branch])

\* C38: every BacktrackingSearch.solve call on finite domains terminates:
\* each recursive search step branches on a variable whose domain has more
\* than one value and turns it into a singleton, so the recursion depth never
\* exceeds the number of variables and each node tries finitely many values.
C38_SolveTerminates == []C38_BranchesNarrow /\ <>(pc = "done")

\* a solve has returned after a search that went two frames deep and came
\* back from failed guesses
C38_Witness ==
    /\ pc = "done"
    /\ stats.nodes_visited >= 3
    /\ stats.backtracks >= 2

\* the guesses made so far whose outcome is still open: one for each frame,
\* except that the top frame has none while it is between two values
OpenGuesses ==
    IF pc = "loop" THEN Len(stack) - 1
    ELSE IF pc = "done" THEN 0
    ELSE Len(stack)

\* every guess that is no longer open has been counted once, unless the
\* search has returned a solution or an error through it
C39_FailedGuessesCounted ==
    (observed.on /\ strategy = "Backtracking" /\ result.kind \notin {"Some", "Err"}) =>
        stats.backtracks = observed.guesses - OpenGuesses

\* returning a solution counts nothing: the guesses on the path to it, one
\* for each frame, stay uncounted
C39_PathNotCounted ==
    (result' # result /\ result'.kind = "Some") =>
        /\ stats'.backtracks = stats.backtracks
        /\ observed.on => stats'.backtracks = observed.guesses - Len(stack)

\* C39: backtracks is incremented exactly once for every guessed value whose
\* propagation failed (a domain was wiped out) or whose subtree returned no
\* solution, and is never incremented for a guess on the path to the returned
\* solution.
C39_BacktracksCountFailedGuesses ==
    []C39_FailedGuessesCounted /\ [][C39_PathNotCounted]_vars

\* a search has returned a solution after several guesses, some failed in
\* their propagation or in their subtree, which was searched, and counted, some
\* on the path to the solution and not counted
C39_Witness ==
    /\ observed.on
    /\ pc = "done"
    /\ result.kind = "Some"
    /\ stats.backtracks >= 3
    /\ observed.guesses >= stats.backtracks + 2
    /\ stats.nodes_visited > observed.guesses - stats.backtracks + 1

\* the step is the entry of a search node: search is called and either
\* returns at once or selects a variable and starts its value loop
SearchNodeStep == pc = "search"

\* C40: nodes_visited is incremented exactly once per search node at which
\* the variable heuristic selected a branching variable (immediately before
\* iterating its values); a node whose solution is already complete, or for
\* which the heuristic selects no variable, does not increment it.
C40_NodesVisitedCountsBranchings ==
    [][/\ SearchNodeStep =>
            stats'.nodes_visited
              = stats.nodes_visited + (IF Len(stack') > Len(stack) THEN 1 ELSE 0)
       /\ (~SearchNodeStep /\ pc \notin {"start", "done"}) =>
            stats'.nodes_visited = stats.nodes_visited]_vars

====
